---- MODULE Spec2Model ----
(***************************************************************************)
(* Model of the CADRI document extraction engine of cetesb-cadri-csv:      *)
(*   - PDFParserStandalone  (pdf_parser_standalone.py): the pattern-based  *)
(*     strategies (enhanced, then structured/alternative) and the          *)
(*     validator;                                                          *)
(*   - LLMPDFParser (src/llm_pdf_parser.py): the cache gate, the remote    *)
(*     call and the fallback to the pattern-based parser;                  *)
(*   - LLMPDFParser.parse_all_pdfs: the loop over the PDF directory and    *)
(*     the batches it saves;                                               *)
(*   - CSVStore.upsert (src/store_csv.py): the persistence sink.           *)
(*                                                                         *)
(* Strings whose shape matters (residue codes) are sequences of one-       *)
(* character strings, so that the regular expressions of the source are    *)
(* operators over characters.  A document text is a sequence of lines;     *)
(* a line is a record that says which of the source's patterns match it.   *)
(***************************************************************************)
EXTENDS Integers, Sequences, FiniteSets, TLC

VARIABLES
    parsed_cache,   \* LLMPDFParser.parsed_cache: set of document numbers
    stats,          \* LLMPDFParser.stats
    std_stats,      \* PDFParserStandalone.stats
    call,           \* the last parse_pdf call: its inputs and what it did
    extracted,      \* history: documents for which a call returned >= 1 record
    ncalls,         \* number of parse_pdf calls made in the session
    csv,            \* the rows of the items CSV file (cadri_itens.csv)
    latest,         \* history: the last row submitted for each (document, item)
    nupserts,       \* number of CSVStore.upsert calls made
    flush,          \* the last upsert call: its batch, its keys, the file before
    vin,            \* validate_extraction: the items passed in
    vout,           \* validate_extraction: <<the list returned>>, <<>> before the call
    run,            \* parse_all_pdfs: its flag, its position, its locals
    sunk,           \* every item dict handed to _save_items_batch, in order
    hashseed,       \* the order in which this process iterates a set of codes
    docling_stats,  \* DoclingPDFParser.stats
    util,           \* the last call of a text utility: its input and its result
    seeds,          \* the SeedManager: its queue and its sets
    retry,          \* a RetryHelper.retry_* call in progress
    workers         \* the CSVStore.upsert calls in progress, one per worker

parserVars == <<parsed_cache, stats, std_stats, call, extracted, ncalls>>
storeVars == <<csv, latest, nupserts, flush>>
validateVars == <<vin, vout>>
batchVars == <<run, sunk>>
utilVars == <<util, seeds, retry, workers>>
vars == <<parsed_cache, stats, std_stats, call, extracted, ncalls,
          csv, latest, nupserts, flush, vin, vout, run, sunk, hashseed,
          docling_stats, util, seeds, retry, workers>>

(***************************************************************************)
(* Bounds                                                                  *)
(***************************************************************************)
MaxLines == 2       \* lines of a document text
MaxLLMItems == 1    \* items in a parsed LLM response
MaxCalls == 2       \* parse_pdf calls in one session
MaxBatch == 2       \* rows of one batch handed to CSVStore.upsert
MaxUpserts == 2     \* CSVStore.upsert calls in one run
MaxValidate == 2    \* items in one validate_extraction call
MaxBlockLines == 3  \* lines of a document text with item blocks

(***************************************************************************)
(* Characters and codes                                                    *)
(***************************************************************************)
Upper == {"A", "D", "F", "K", "X", "Y", "Z"}
Digit == {"0", "1", "2", "3", "4", "5", "6", "7", "8", "9"}

D099 == <<"D", "0", "9", "9">>
F001 == <<"F", "0", "0", "1">>
d099 == <<"d", "0", "9", "9">>
XYZ == <<"X", "Y", "Z">>
Dotted == <<"1", "2", ".", "3", "4", ".", "5", "6", "7">>
Dotted2 == <<"7", "6", ".", "5", "4", ".", "3", "2", "1">>
NoCode == <<>>      \* '' or None: falsy in Python

\* mutant: the check compiled with re.IGNORECASE, as the anchor pattern is
MatchNumeroResiduoIgnoreCase(s) ==
    /\ Len(s) \in {4, 5}
    /\ s[1] \in Upper \cup {"a", "d", "f", "k", "x", "y", "z"}
    /\ \A i \in 2..4 : s[i] \in Digit
    /\ Len(s) = 5 => s[5] = "\n"

\* re.match(r'^[A-Z]\d{3}$', s): '$' also matches before one trailing newline
MatchNumeroResiduo(s) ==
    /\ Len(s) \in {4, 5}
    /\ s[1] \in Upper
    /\ \A i \in 2..4 : s[i] \in Digit
    /\ Len(s) = 5 => s[5] = "\n"

\* re.match(r'^\d{2}\.\d{2}\.\d{3}$', s)
MatchCodigoResiduo(s) ==
    /\ Len(s) \in {9, 10}
    /\ \A i \in {1, 2, 4, 5, 7, 8, 9} : s[i] \in Digit
    /\ s[3] = "." /\ s[6] = "."
    /\ Len(s) = 10 => s[10] = "\n"

\* the residuo_linha pattern's code group: ([A-Z]\d{3}) under re.IGNORECASE
Lower == {"a", "d", "f", "k", "x", "y", "z"}
MatchAnchorCode(s) ==
    /\ Len(s) = 4
    /\ s[1] \in Upper \cup Lower
    /\ \A i \in 2..4 : s[i] \in Digit

\* _normalize_codigo: keep the digits; seven digits become XX.XX.XXX
NormalizeCodigo(codigo) ==
    LET clean == SelectSeq(codigo, LAMBDA c : c \in Digit)
    IN  IF Len(clean) = 7
        THEN SubSeq(clean, 1, 2) \o <<".">> \o SubSeq(clean, 3, 4) \o <<".">>
             \o SubSeq(clean, 5, 7)
        ELSE codigo

(***************************************************************************)
(* Document texts.  A line is [kind, item, code, desc]:                    *)
(*   "anchor"  "<item> Residuo : <code> - <desc>"  (patterns.residuo_linha)*)
(*   "codigo"  "<code> <desc>", a legacy code      (patterns.codigo)       *)
(*   "marker"  a section heading such as "RESIDUOS AUTORIZADOS"            *)
(*   "other"   prose that no pattern matches                               *)
(*   "fields"  the compound characteristic line "Classe : <c> Estado       *)
(*             Fisico: <e> O/I: <o> Qtde: <q> <u>" (patterns.classe_detalhada) *)
(*   "filler"  a long stretch of prose that no pattern matches             *)
(* desc is a sequence of words ('' is <<>>); fields holds what a "fields"  *)
(* line prints; chars is the length of the line, its newline included.     *)
(* A line of kind "anchor" whose code the anchor pattern does not match    *)
(* (XYZ) is an item heading that the pattern passes over.                  *)
(***************************************************************************)
NoFields ==
    [classe_residuo |-> "", estado_fisico |-> "", oii |-> "", quantidade |-> "",
     unidade |-> ""]

Anchor(item, code, desc) ==
    [kind |-> "anchor", item |-> item, code |-> code, desc |-> desc,
     fields |-> NoFields, chars |-> 40]
Codigo(code, desc) ==
    [kind |-> "codigo", item |-> <<>>, code |-> code, desc |-> desc,
     fields |-> NoFields, chars |-> 40]
Marker ==
    [kind |-> "marker", item |-> <<>>, code |-> NoCode, desc |-> <<>>,
     fields |-> NoFields, chars |-> 40]
Other ==
    [kind |-> "other", item |-> <<>>, code |-> NoCode, desc |-> <<>>,
     fields |-> NoFields, chars |-> 40]
FieldsLine(classe, estado, oii, qtde, unidade) ==
    [kind |-> "fields", item |-> <<>>, code |-> NoCode, desc |-> <<>>,
     fields |-> [classe_residuo |-> classe, estado_fisico |-> estado,
                 oii |-> oii, quantidade |-> qtde, unidade |-> unidade],
     chars |-> 60]
Filler ==
    [kind |-> "filler", item |-> <<>>, code |-> NoCode, desc |-> <<>>,
     fields |-> NoFields, chars |-> 1500]

Lines ==
    { Anchor(<<"1">>, D099, <<"oleo">>),
      Anchor(<<"1">>, d099, <<"oleo">>),
      Codigo(Dotted, <<"borra">>),
      Codigo(Dotted, <<>>),
      Marker,
      Other }

SeqsUpTo(S, n) == UNION { [1..k -> S] : k \in 0..n }

Texts == SeqsUpTo(Lines, MaxLines)

\* the words of a whole line, as the line-based strategies read it
LineWords(line) ==
    CASE line.kind = "anchor" -> <<"Residuo">> \o line.desc
      [] line.kind = "codigo" -> <<"codigo">> \o line.desc
      [] line.kind = "marker" -> <<"RESIDUOS", "AUTORIZADOS">>
      [] line.kind = "fields" -> <<"Classe">>
      [] OTHER -> <<"texto">>

\* str.zfill(2) on the printed item index
Zfill2(item) == IF Len(item) < 2 THEN <<"0">> \o item ELSE item

(***************************************************************************)
(* Item dictionaries.  schema "new" is _create_enhanced_item_dict's key    *)
(* set (item_numero, numero_residuo, ...), "old" is _create_item_dict's    *)
(* (codigo_residuo, ...); a key the dict lacks holds the value .get()      *)
(* defaults to.                                                            *)
(***************************************************************************)
EnhancedItem(doc, item_numero, numero_residuo, descricao) ==
    [schema |-> "new", numero_documento |-> doc, item_numero |-> item_numero,
     numero_residuo |-> numero_residuo, codigo_residuo |-> NoCode,
     descricao_residuo |-> descricao, classe_residuo |-> "",
     estado_fisico |-> "", oii |-> "", quantidade |-> "", unidade |-> ""]

CreateItemDict(doc, codigo, descricao) ==
    [schema |-> "old", numero_documento |-> doc, item_numero |-> <<>>,
     numero_residuo |-> NoCode, codigo_residuo |-> codigo,
     descricao_residuo |-> descricao, classe_residuo |-> "",
     estado_fisico |-> "", oii |-> "", quantidade |-> "", unidade |-> ""]

\* _create_enhanced_item_dict: None (here <<>>) without a code or a
\* description; fields is what _extract_structured_fields found in the block
CreateEnhancedItemDict(doc, item_numero, numero_residuo, descricao, fields) ==
    IF numero_residuo = NoCode \/ descricao = <<>>
    THEN <<>>
    ELSE <<[EnhancedItem(doc, item_numero, numero_residuo, descricao)
               EXCEPT !.classe_residuo = fields.classe_residuo,
                      !.estado_fisico = fields.estado_fisico,
                      !.oii = fields.oii,
                      !.quantidade = fields.quantidade,
                      !.unidade = fields.unidade]>>

\* positions in the text: the offset of line i and the length of the text
\* (_clean_text strips the text, so the last line has no newline)
RECURSIVE Offset(_, _)
Offset(text, i) == IF i <= 1 THEN 0 ELSE Offset(text, i - 1) + text[i - 1].chars
TextLen(text) == IF text = <<>> THEN 0 ELSE Offset(text, Len(text) + 1) - 1

Min(a, b) == IF a <= b THEN a ELSE b

\* the lines patterns['residuo_linha'] matches: it is compiled with
\* re.IGNORECASE, and match.group(0) is the line without its newline
IsAnchorMatch(line) == line.kind = "anchor" /\ MatchAnchorCode(line.code)
AnchorMatches(text) == { i \in 1..Len(text) : IsAnchorMatch(text[i]) }

\* the last block runs for this many characters at most
BlockLimit == 2000

\* the block of the match at line i: [start_pos, end_pos].  The next match is
\* searched in text[start_pos + len(match.group(0)):], and its start is an
\* offset into that slice.
ResiduoBlock(text, i) ==
    LET start_pos == Offset(text, i)
        len0 == text[i].chars - 1
        later == { j \in AnchorMatches(text) : j > i }
    IN  IF later # {}
        THEN LET j == CHOOSE x \in later : \A y \in later : x <= y
                 next_start == Offset(text, j) - (start_pos + len0)
             IN  [start_pos |-> start_pos, end_pos |-> start_pos + len0 + next_start]
        ELSE [start_pos |-> start_pos,
              end_pos |-> Min(start_pos + BlockLimit, TextLen(text))]

\* the lines that lie in the block as a whole
BlockLines(text, i) ==
    LET b == ResiduoBlock(text, i)
    IN  { k \in i..Len(text) : Offset(text, k) + text[k].chars - 1 <= b.end_pos }

\* the members of a set of line numbers in ascending order
RECURSIVE Ascending(_)
Ascending(S) ==
    IF S = {} THEN <<>>
    ELSE LET m == CHOOSE x \in S : \A y \in S : x <= y
         IN  <<m>> \o Ascending(S \ {m})

\* the blocks of _extract_residuos_enhanced, one per match of the loop
ResiduoBlocks(text) ==
    LET idx == Ascending(AnchorMatches(text))
    IN  [k \in 1..Len(idx) |-> ResiduoBlock(text, idx[k])]

(***************************************************************************)
(* DoclingPDFParser._extract_residue_items.  The lines of the text are the *)
(* lines of full_text.  An item is found by residue_pattern                *)
(* (\d{2})\s+Resíduo\s*:\s*([A-Z]\d{3}), compiled with re.IGNORECASE; the   *)
(* end of its block is searched with \d{2}\s+Resíduo\s*:, which a heading  *)
(* with any code matches.                                                  *)
(***************************************************************************)
IsDoclingHeading(line) == line.kind = "anchor" /\ Len(line.item) = 2
IsDoclingMatch(line) == IsDoclingHeading(line) /\ MatchAnchorCode(line.code)
DoclingMatches(text) == { i \in 1..Len(text) : IsDoclingMatch(text[i]) }

\* the last block runs for this many characters at most
DoclingBlockLimit == 1500

DoclingBlock(text, i) ==
    LET start_pos == Offset(text, i)
        len0 == text[i].chars - 1
        later == { j \in (i + 1)..Len(text) : IsDoclingHeading(text[j]) }
    IN  IF later # {}
        THEN LET j == CHOOSE x \in later : \A y \in later : x <= y
                 next_start == Offset(text, j) - (start_pos + len0)
             IN  [start_pos |-> start_pos, end_pos |-> start_pos + len0 + next_start]
        ELSE [start_pos |-> start_pos,
              end_pos |-> Min(start_pos + DoclingBlockLimit, TextLen(text))]

DoclingBlocks(text) ==
    LET idx == Ascending(DoclingMatches(text))
    IN  [k \in 1..Len(idx) |-> DoclingBlock(text, idx[k])]

\* the lines that lie in the block as a whole
DoclingBlockLines(text, i) ==
    LET b == DoclingBlock(text, i)
    IN  { k \in i..Len(text) : Offset(text, k) + text[k].chars - 1 <= b.end_pos }

\* str.upper() on the spellings the model uses
UpperWord(w) ==
    CASE w = "Liquido" -> "LIQUIDO"
      [] w = "Solido" -> "SOLIDO"
      [] OTHER -> w

\* unidade_raw.split()[0]: the first word of what follows the number
FirstWord(u) ==
    CASE u = "t / ano" -> "t"
      [] u = "kg / ano" -> "kg"
      [] OTHER -> u

\* _extract_structured_fields: patterns['classe_detalhada'].search(block) takes
\* the first compound line of the block, whichever item printed it
ExtractStructuredFields(text, i) ==
    LET found == { k \in BlockLines(text, i) : text[k].kind = "fields" }
    IN  IF found = {} THEN NoFields
        ELSE LET k == CHOOSE x \in found : \A y \in found : x <= y
                 f == text[k].fields
             IN  [f EXCEPT !.estado_fisico = UpperWord(@),
                           !.unidade = FirstWord(@)]

\* _extract_residuos_enhanced: one item per anchor match, in text order
RECURSIVE EnhancedFrom(_, _, _)
EnhancedFrom(text, doc, i) ==
    IF i > Len(text) THEN <<>>
    ELSE (IF IsAnchorMatch(text[i])
          THEN CreateEnhancedItemDict(doc, Zfill2(text[i].item), text[i].code,
                                      text[i].desc,
                                      ExtractStructuredFields(text, i))
          ELSE <<>>)
         \o EnhancedFrom(text, doc, i + 1)

ExtractResiduosEnhanced(text, doc) == EnhancedFrom(text, doc, 1)

\* DoclingPDFParser._extract_residue_fields: each pattern takes its first
\* match in the block; the values are stripped, the unit cut to its first word
DoclingExtractResidueFields(text, i) ==
    LET found == { k \in DoclingBlockLines(text, i) : text[k].kind = "fields" }
    IN  IF found = {} THEN NoFields
        ELSE LET k == CHOOSE x \in found : \A y \in found : x <= y
             IN  [text[k].fields EXCEPT !.unidade = FirstWord(@)]

\* DoclingPDFParser._extract_residue_items: one item per match, in text order
RECURSIVE DoclingFrom(_, _, _)
DoclingFrom(text, doc, i) ==
    IF i > Len(text) THEN <<>>
    ELSE (IF IsDoclingMatch(text[i])
          THEN LET f == DoclingExtractResidueFields(text, i)
               IN  <<[EnhancedItem(doc, text[i].item, text[i].code, text[i].desc)
                         EXCEPT !.classe_residuo = f.classe_residuo,
                                !.estado_fisico = f.estado_fisico,
                                !.oii = f.oii,
                                !.quantidade = f.quantidade,
                                !.unidade = f.unidade]>>
          ELSE <<>>)
         \o DoclingFrom(text, doc, i + 1)

DoclingExtractResidueItems(text, doc) == DoclingFrom(text, doc, 1)

\* _find_residuos_section: the text from the first marker on, None (<<>>) if none
RECURSIVE FindResiduosSection(_)
FindResiduosSection(text) ==
    IF text = <<>> THEN <<>>
    ELSE IF Head(text).kind = "marker" THEN text
    ELSE FindResiduosSection(Tail(text))

\* _extract_residuos_structured: line by line; cur is current_item
\* (<<>> when empty, else <<[codigo, descricao]>>)
StructuredFlush(cur, doc) ==
    IF cur # <<>> /\ cur[1].codigo # NoCode /\ cur[1].descricao # <<>>
    THEN <<CreateItemDict(doc, cur[1].codigo, cur[1].descricao)>>
    ELSE <<>>

RECURSIVE StructuredLoop(_, _, _)
StructuredLoop(lines, cur, doc) ==
    IF lines = <<>> THEN StructuredFlush(cur, doc)
    ELSE LET line == Head(lines)
         IN  IF line.kind = "codigo"
             THEN StructuredFlush(cur, doc)
                  \o StructuredLoop(Tail(lines),
                        <<[codigo |-> NormalizeCodigo(line.code),
                           descricao |-> line.desc]>>, doc)
             ELSE IF cur # <<>> /\ cur[1].codigo # NoCode
             THEN StructuredLoop(Tail(lines),
                        <<[cur[1] EXCEPT !.descricao = @ \o LineWords(line)]>>,
                        doc)
             ELSE StructuredLoop(Tail(lines), cur, doc)

ExtractResiduosStructured(section, doc) == StructuredLoop(section, <<>>, doc)

\* _extract_residuos_alternative: one item per distinct code found in the
\* text, described by the rest of the first line that holds it and the next
\* line
FirstLineWith(text, codigo) ==
    CHOOSE i \in 1..Len(text) :
        /\ text[i].kind = "codigo" /\ text[i].code = codigo
        /\ \A j \in 1..(i - 1) : ~(text[j].kind = "codigo" /\ text[j].code = codigo)

AlternativeItem(text, doc, codigo) ==
    LET i == FirstLineWith(text, codigo)
        next == IF i < Len(text) THEN LineWords(text[i + 1]) ELSE <<>>
    IN  CreateItemDict(doc, NormalizeCodigo(codigo), text[i].desc \o next)

\* the iteration orders of a set of str: the order depends on the hashes of
\* the strings, which are salted anew for every process
HashOrders == { <<Dotted, Dotted2>>, <<Dotted2, Dotted>> }

\* list(set(codigos)) in a process that iterates in the given order
ListOfSet(codigos, order) == SelectSeq(order, LAMBDA c : c \in codigos)

\* the 'for codigo in codigos_unicos' loop
RECURSIVE AlternativeLoop(_, _, _)
AlternativeLoop(text, doc, codigos_unicos) ==
    IF codigos_unicos = <<>> THEN <<>>
    ELSE <<AlternativeItem(text, doc, Head(codigos_unicos))>>
             \o AlternativeLoop(text, doc, Tail(codigos_unicos))

\* patterns['codigo'].findall(text)
FindAllCodigos(text) ==
    { text[i].code : i \in { j \in 1..Len(text) : text[j].kind = "codigo" } }

ExtractResiduosAlternative(text, doc) ==
    AlternativeLoop(text, doc, ListOfSet(FindAllCodigos(text), hashseed))

(***************************************************************************)
(* validate_extraction                                                     *)
(***************************************************************************)
UnidadeMap(u) ==
    CASE u \in {"ton", "t"} -> "t"
      [] u \in {"m3", "m³"} -> "m³"
      [] u \in {"l", "litro", "litros"} -> "L"
      [] u \in {"unidade", "unidades", "un", "peça", "peças", "pç"} -> "un"
      [] OTHER -> u

\* str.lower() on the unit spellings the model uses
LowerUnit(u) ==
    CASE u = "T" -> "t"
      [] u = "KG" -> "kg"
      [] u = "L" -> "l"
      [] u = "Ton" -> "ton"
      [] OTHER -> u

\* the code check of validate_extraction for one item
CodeAccepted(item) ==
    IF item.numero_residuo # NoCode
    THEN MatchNumeroResiduo(item.numero_residuo)
    ELSE IF item.codigo_residuo # NoCode
    THEN MatchCodigoResiduo(item.codigo_residuo)
    ELSE FALSE

\* str(float(quantidade)) on the numbers the model prints; a text float()
\* rejects is left as it is
StrFloat(q) ==
    CASE q = "50" -> "50.0"
      [] q = "7" -> "7.0"
      [] q = "1.5" -> "1.5"
      [] OTHER -> q

RECURSIVE ValidateExtraction(_)
ValidateExtraction(items) ==
    IF items = <<>> THEN <<>>
    ELSE LET item == Head(items)
         IN  (IF CodeAccepted(item)
              THEN <<[item EXCEPT !.unidade = UnidadeMap(LowerUnit(@)),
                                  !.quantidade = StrFloat(@)]>>
              ELSE <<>>)
             \o ValidateExtraction(Tail(items))

(***************************************************************************)
(* PDFParserStandalone.parse_pdf.  A pdf is [readable, text]: fitz.open    *)
(* raises on an unreadable file.  The result names the steps run (trace)   *)
(* and the increment of stats['errors'].                                   *)
(***************************************************************************)
DocIds == {"12345", "67890"}

Pdfs == {[readable |-> FALSE, text |-> <<>>]}
        \cup {[readable |-> TRUE, text |-> t] : t \in Texts}

\* the fallback of parse_pdf: the section-based strategy when a section
\* marker is found, the alternative one otherwise
FlexibleExtract(text, doc) ==
    LET section == FindResiduosSection(text)
    IN  IF section # <<>>
        THEN [items |-> ExtractResiduosStructured(section, doc),
              trace |-> <<"structured">>]
        ELSE [items |-> ExtractResiduosAlternative(text, doc),
              trace |-> <<"alternative">>]

\* the condition under which parse_pdf tries the fallback strategy
NeedsFallback(items) == items = <<>>

StdParsePdf(pdf, doc) ==
    IF ~pdf.readable
    THEN [items |-> <<>>, trace |-> <<"open_failed">>, errors |-> 1]
    ELSE LET enhanced == ExtractResiduosEnhanced(pdf.text, doc)
             flex == FlexibleExtract(pdf.text, doc)
             raw == IF NeedsFallback(enhanced) THEN flex.items ELSE enhanced
             tr == IF NeedsFallback(enhanced)
                   THEN <<"enhanced">> \o flex.trace ELSE <<"enhanced">>
         IN  [items |-> ValidateExtraction(raw),
              trace |-> tr \o <<"validate">>, errors |-> 0]

(***************************************************************************)
(* LLMPDFParser.parse_pdf.  A response of the remote call is               *)
(*   "raise"  single_request raised                                        *)
(*   "none"   an empty response                                            *)
(*   "bad"    a response _parse_llm_response cannot parse or validate      *)
(*   "ok"     a response that parses to a result with the given items      *)
(***************************************************************************)
LLMItems ==
    { [item_numero |-> <<"0", "1">>, numero_residuo |-> c] : c \in {D099, XYZ, NoCode} }

\* a JSON response: items is the 'items' array (has_items: the key is there),
\* total_items is <<n>> for a declared total and <<>> when the key is missing,
\* processed_at is the text of the timestamp in tokens, <<>> when missing
Response(kind, items) ==
    [kind |-> kind, items |-> items, has_items |-> TRUE, total_items |-> <<>>,
     processed_at |-> <<>>]

LLMResponses ==
    { Response(k, <<>>) : k \in {"raise", "none", "bad"} }
    \cup { Response("ok", its) : its \in SeqsUpTo(LLMItems, MaxLLMItems) }

(***************************************************************************)
(* Timestamps are sequences of tokens: the date, "T", groups of digits,    *)
(* ":" and a one-character tail.                                           *)
(***************************************************************************)
DateTok == "2025-09-24"
Digits2 == {"12", "00"}
Digits12 == Digits2 \cup {"9"}
OneCharNotColon == {"Z", "9"}

\* re.sub(r'T(\d{1,2})::(\d{2})', r'T\1:\2:00', ...)
RECURSIVE SubDoubleColon(_)
SubDoubleColon(ts) ==
    IF ts = <<>> THEN <<>>
    ELSE IF /\ Len(ts) >= 5 /\ ts[1] = "T" /\ ts[2] \in Digits12
            /\ ts[3] = ":" /\ ts[4] = ":" /\ ts[5] \in Digits2
         THEN <<"T", ts[2], ":", ts[5], ":", "00">>
                  \o SubDoubleColon(SubSeq(ts, 6, Len(ts)))
         ELSE <<Head(ts)>> \o SubDoubleColon(Tail(ts))

\* re.sub(r'T(\d{1,2}):(\d{2})"', r'T\1:\2:00"', ...) and, in the validator,
\* re.sub(r'T(\d{1,2}):(\d{2})$', r'T\1:\2:00', v): the value ends at minutes
SubMissingSeconds(ts) ==
    LET n == Len(ts)
    IN  IF /\ n >= 4 /\ ts[n - 3] = "T" /\ ts[n - 2] \in Digits12
           /\ ts[n - 1] = ":" /\ ts[n] \in Digits2
        THEN ts \o <<":", "00">>
        ELSE ts

\* re.sub(r'T(\d{2}):(\d{2})([^:])"', r'T\1:\2:00\3"', ...)
SubMissingSecondsBeforeTail(ts) ==
    LET n == Len(ts)
    IN  IF /\ n >= 5 /\ ts[n - 4] = "T" /\ ts[n - 3] \in Digits2
           /\ ts[n - 2] = ":" /\ ts[n - 1] \in Digits2
           /\ ts[n] \in OneCharNotColon
        THEN SubSeq(ts, 1, n - 1) \o <<":", "00", ts[n]>>
        ELSE ts

\* mutant: the cleaning leaves the text as it is
CleanNothing(ts) == ts

\* _clean_json_datetime_formats, on the timestamp of the response
CleanJsonDatetimeFormats(ts) ==
    SubMissingSecondsBeforeTail(SubMissingSeconds(SubDoubleColon(ts)))

\* v.replace('Z', '+00:00')
ReplaceZ(ts) == [i \in 1..Len(ts) |-> IF ts[i] = "Z" THEN "+00:00" ELSE ts[i]]

\* datetime.fromisoformat: the value read, <<>> for a ValueError
FromIsoFormat(ts) ==
    LET IsTime(t) ==
            \/ /\ Len(t) = 5 /\ t[1] = DateTok /\ t[2] = "T" /\ t[3] \in Digits2
               /\ t[4] = ":" /\ t[5] \in Digits2
            \/ /\ Len(t) = 7 /\ t[1] = DateTok /\ t[2] = "T" /\ t[3] \in Digits2
               /\ t[4] = ":" /\ t[5] \in Digits2 /\ t[6] = ":" /\ t[7] \in Digits2
        n == Len(ts)
    IN  IF ts = <<DateTok>> \/ IsTime(ts) THEN ts
        ELSE IF n >= 1 /\ ts[n] = "+00:00" /\ IsTime(SubSeq(ts, 1, n - 1)) THEN ts
        ELSE <<>>

\* datetime.now()
Generated == <<"now">>

\* CADRIExtractionResult.validate_processed_at
ValidateProcessedAt(v) ==
    IF v = <<>> THEN Generated
    ELSE LET p == FromIsoFormat(ReplaceZ(SubMissingSeconds(SubDoubleColon(v))))
         IN  IF p = <<>> THEN Generated ELSE p

\* the result built from the data of a response that was read as JSON
ExtractionResult(resp) ==
    [total_items |-> IF ~resp.has_items THEN 0
                     ELSE IF resp.total_items = <<>> THEN Len(resp.items)
                     ELSE resp.total_items[1],
     items |-> IF resp.has_items THEN resp.items ELSE <<>>,
     processed_at |-> ValidateProcessedAt(CleanJsonDatetimeFormats(resp.processed_at))]

\* mutant: every response is taken as a parsed result
ParseLLMResponseAlways(resp) == <<ExtractionResult(resp)>>

\* mutant: a response without the 'items' key is rejected
ParseLLMResponseStrict(resp) ==
    IF resp.kind = "ok" /\ resp.has_items THEN <<ExtractionResult(resp)>> ELSE <<>>

\* _parse_llm_response: the parsed result (<<result>>) or None (<<>>)
ParseLLMResponse(resp) ==
    IF resp.kind = "ok" THEN <<ExtractionResult(resp)>> ELSE <<>>

\* flatten_item_to_dict, with the document number _parse_llm_response fills in
FlattenItemToDict(item, doc) ==
    EnhancedItem(doc, item.item_numero, item.numero_residuo, <<>>)

FlattenAll(items, doc) == [i \in 1..Len(items) |-> FlattenItemToDict(items[i], doc)]

\* _extract_text_from_pdf: '' when the file cannot be read or has no text
ExtractTextFromPdf(pdf) == IF pdf.readable THEN pdf.text ELSE <<>>

\* mutant: the fallback gives up and returns an empty list
FallbackReturnsNothing(pdf, doc) ==
    [items |-> <<>>, trace |-> <<>>, fallback_used |-> 0]

\* _fallback_to_regex_parser: a fresh PDFParserStandalone parses the same file
FallbackToRegexParser(pdf, doc) ==
    LET r == StdParsePdf(pdf, doc)
    IN  [items |-> r.items, trace |-> r.trace, fallback_used |-> 1]

\* the cache gate of parse_pdf
CacheHit(doc, force, cache) == ~force /\ doc \in cache

\* the 'except Exception' clause around the remote call and the parsing
CatchesLLMException == TRUE

\* whether the path that ends in a parsed result marks the document as done
MarksOnResult == TRUE
\* whether the fallback path marks the document as done
MarksOnFallback == FALSE

Bump(st, field, n) == [st EXCEPT ![field] = @ + n]

\* the whole of parse_pdf: [hit, ret, trace, raised, stats, cache]
LLMParsePdf(doc, pdf, force, resp, st, cache) ==
    IF CacheHit(doc, force, cache)
    THEN [hit |-> TRUE, ret |-> <<>>, result |-> <<>>, trace |-> <<>>, raised |-> FALSE,
          stats |-> Bump(st, "cache_hits", 1), cache |-> cache]
    ELSE
    LET st1 == IF pdf.readable THEN Bump(st, "pymupdf_used", 1) ELSE st
        text == ExtractTextFromPdf(pdf)
    IN
    IF text = <<>>
    THEN [hit |-> FALSE, ret |-> <<>>, result |-> <<>>, trace |-> <<"extract_text">>,
          raised |-> FALSE, stats |-> Bump(st1, "errors", 1), cache |-> cache]
    ELSE
    LET fb == FallbackToRegexParser(pdf, doc)
        fbcache == IF MarksOnFallback THEN cache \cup {doc} ELSE cache
        viafb(st2) ==
            [hit |-> FALSE, ret |-> fb.items, result |-> <<>>,
             trace |-> <<"extract_text", "llm">> \o fb.trace, raised |-> FALSE,
             stats |-> Bump(st2, "fallback_used", fb.fallback_used),
             cache |-> fbcache]
        parsed == ParseLLMResponse(resp)
    IN
    IF resp.kind = "raise"
    THEN IF CatchesLLMException
         THEN viafb(Bump(st1, "errors", 1))
         ELSE [hit |-> FALSE, ret |-> <<>>, result |-> <<>>, trace |-> <<"extract_text", "llm">>,
               raised |-> TRUE, stats |-> st1, cache |-> cache]
    ELSE IF resp.kind = "none" THEN viafb(Bump(st1, "llm_errors", 1))
    ELSE IF parsed = <<>> THEN viafb(Bump(st1, "llm_errors", 1))
    ELSE LET items_data == FlattenAll(parsed[1].items, doc)
         IN  [hit |-> FALSE, ret |-> items_data, result |-> parsed,
              trace |-> <<"extract_text", "llm">>, raised |-> FALSE,
              stats |-> Bump(Bump(st1, "processed", 1),
                             "items_extracted", Len(items_data)),
              cache |-> IF MarksOnResult THEN cache \cup {doc} ELSE cache]

(***************************************************************************)
(* A session: one LLMPDFParser and one PDFParserStandalone, whose          *)
(* parse_pdf is called on the files of the PDF directory.                  *)
(***************************************************************************)
ZeroStats ==
    [processed |-> 0, items_extracted |-> 0, errors |-> 0, llm_errors |-> 0,
     fallback_used |-> 0, cache_hits |-> 0, pymupdf_used |-> 0]

ZeroDoclingStats ==
    [processed |-> 0, items_extracted |-> 0, errors |-> 0, no_items |-> 0,
     skipped |-> 0, docling_used |-> 0, fallback_used |-> 0]

ZeroStdStats == [processed |-> 0, items_extracted |-> 0, errors |-> 0, no_items |-> 0]

NoFlushYet == [batch |-> <<>>, keycols |-> <<>>, before |-> <<>>, again |-> FALSE]

\* parse_all_pdfs before its loop: all_items = [], processed_count = 0;
\* attempted lists the documents handed to parse_pdf so far, each with the
\* number of records it returned
NoRun ==
    [parser |-> "llm", force_reparse |-> FALSE, next |-> 1, all_items |-> <<>>,
     processed_count |-> 0, attempted |-> <<>>, done |-> FALSE, save |-> "none"]

NoCall ==
    [parser |-> "none", doc |-> "", pdf |-> [readable |-> FALSE, text |-> <<>>],
     force |-> FALSE, resp |-> Response("none", <<>>),
     before |-> {}, done_before |-> {}, hits_before |-> 0, hit |-> FALSE, ret |-> <<>>,
     result |-> <<>>, errors_before |-> 0, blocks |-> <<>>, trace |-> <<>>, raised |-> FALSE]

\* no utility, seed manager, retry or concurrent upsert is in use
NoUtil == [fn |-> "none", arg |-> <<>>, out |-> <<>>]
NoSeeds == [in_use |-> FALSE]
NoRetry == [in_use |-> FALSE]
NoWorkers == [in_use |-> FALSE]

UtilIdle ==
    /\ util = NoUtil
    /\ seeds = NoSeeds
    /\ retry = NoRetry
    /\ workers = NoWorkers

\* _load_parsed_cache: the documents that have rows in the items CSV
Init ==
    /\ parsed_cache \in SUBSET DocIds
    /\ stats = ZeroStats
    /\ std_stats = ZeroStdStats
    /\ call = NoCall
    /\ extracted = {}
    /\ ncalls = 0
    /\ csv = <<>>
    /\ latest = {}
    /\ nupserts = 0
    /\ flush = NoFlushYet
    /\ vin = <<>>
    /\ vout = <<>>
    /\ run = NoRun
    /\ sunk = <<>>
    /\ hashseed \in HashOrders
    /\ docling_stats = ZeroDoclingStats
    /\ UtilIdle

LLMParse(doc, pdf, force, resp) ==
    /\ call.parser = "none"
    /\ \E r \in {LLMParsePdf(doc, pdf, force, resp, stats, parsed_cache)} :
           /\ parsed_cache' = r.cache
           /\ stats' = r.stats
           /\ call' = [parser |-> "llm", doc |-> doc, pdf |-> pdf, force |-> force,
                       resp |-> resp, before |-> parsed_cache,
                       done_before |-> extracted,
                       hits_before |-> stats.cache_hits, hit |-> r.hit,
                       ret |-> r.ret, result |-> r.result,
                       errors_before |-> stats.llm_errors, blocks |-> <<>>, trace |-> r.trace, raised |-> r.raised]
           /\ extracted' = IF r.ret # <<>> THEN extracted \cup {doc} ELSE extracted
    /\ ncalls' = ncalls + 1
    /\ UNCHANGED <<hashseed, docling_stats, utilVars, std_stats, storeVars, validateVars, batchVars>>

StdParse(doc, pdf) ==
    /\ call.parser = "none"
    /\ \E r \in {StdParsePdf(pdf, doc)} :
           /\ std_stats' = Bump(std_stats, "errors", r.errors)
           /\ call' = [parser |-> "std", doc |-> doc, pdf |-> pdf, force |-> FALSE,
                       resp |-> Response("none", <<>>),
                       before |-> parsed_cache, done_before |-> extracted,
                       hits_before |-> stats.cache_hits, hit |-> FALSE,
                       ret |-> r.items, result |-> <<>>,
                       errors_before |-> stats.llm_errors,
                       blocks |-> IF pdf.readable THEN ResiduoBlocks(pdf.text) ELSE <<>>,
                       trace |-> r.trace, raised |-> FALSE]
    /\ ncalls' = ncalls + 1
    /\ UNCHANGED <<hashseed, docling_stats, utilVars, parsed_cache, stats, extracted, storeVars, validateVars, batchVars>>

\* DoclingPDFParser.parse_pdf: a conversion that fails is caught and counted
DoclingParse(doc, pdf) ==
    /\ call.parser = "none"
    /\ docling_stats' = IF pdf.readable THEN Bump(docling_stats, "docling_used", 1)
                        ELSE Bump(docling_stats, "fallback_used", 1)
    /\ call' = [NoCall EXCEPT
                   !.parser = "docling", !.doc = doc, !.pdf = pdf,
                   !.before = parsed_cache, !.done_before = extracted,
                   !.hits_before = stats.cache_hits,
                   !.errors_before = stats.llm_errors,
                   !.ret = IF pdf.readable
                           THEN DoclingExtractResidueItems(pdf.text, doc) ELSE <<>>,
                   !.blocks = IF pdf.readable THEN DoclingBlocks(pdf.text) ELSE <<>>]
    /\ ncalls' = ncalls + 1
    /\ UNCHANGED <<hashseed, utilVars, parsed_cache, stats, std_stats, extracted,
                   storeVars, validateVars, batchVars>>

\* parse_pdf has returned: the caller takes the result and the frame is gone
Return ==
    /\ call.parser # "none"
    /\ call' = NoCall
    /\ UNCHANGED <<hashseed, docling_stats, utilVars, parsed_cache, stats, std_stats, extracted, ncalls,
                   storeVars, validateVars, batchVars>>

Next ==
    \/ Return
    \/ /\ ncalls < MaxCalls
       /\ \E doc \in DocIds, pdf \in Pdfs, force \in BOOLEAN, resp \in LLMResponses :
             LLMParse(doc, pdf, force, resp)
    \/ /\ ncalls < MaxCalls
       /\ \E doc \in DocIds, pdf \in Pdfs : StdParse(doc, pdf)

Spec == Init /\ [][Next]_vars

\* a freshly constructed parser and a single parse_pdf call on it
NextCall ==
    \/ Return
    \/ /\ ncalls = 0
       /\ \E doc \in DocIds, pdf \in Pdfs, force \in BOOLEAN, resp \in LLMResponses :
             LLMParse(doc, pdf, force, resp)
    \/ /\ ncalls = 0
       /\ \E doc \in DocIds, pdf \in Pdfs : StdParse(doc, pdf)

SpecCall == Init /\ [][NextCall]_vars

(***************************************************************************)
(* Properties of the strategy order and of the cache gate                  *)
(***************************************************************************)
Strategies == {"enhanced", "structured", "alternative", "llm"}
Flexible == {"structured", "alternative"}

Ran(s) == \E i \in 1..Len(call.trace) : call.trace[i] = s
RanFlexible == \E i \in 1..Len(call.trace) : call.trace[i] \in Flexible
Pos(s) == CHOOSE i \in 1..Len(call.trace) : call.trace[i] = s
PosFlexible == CHOOSE i \in 1..Len(call.trace) : call.trace[i] \in Flexible
StrategySteps == SelectSeq(call.trace, LAMBDA s : s \in Strategies)

\* what each pattern-based strategy yields on the call's text after validation
ValidStructured == ValidateExtraction(ExtractResiduosEnhanced(call.pdf.text, call.doc))
ValidFlexible == ValidateExtraction(FlexibleExtract(call.pdf.text, call.doc).items)
\* what the pattern-based parser alone returns for the call's document
Baseline == StdParsePdf(call.pdf, call.doc).items

LLMFailed == call.resp.kind \in {"raise", "none", "bad"}

\* C1 (as stated): the structured strategy runs first, the flexible strategy
\* runs whenever the structured one yields no valid record, the remote LLM
\* call is made only after both pattern-based strategies yielded no valid
\* record, and with the LLM path disabled a document on which both fail
\* returns an empty result without a placeholder record.
C1_FixedStrategyOrder ==
    StrategySteps # <<>> =>
        /\ StrategySteps[1] = "enhanced"
        /\ ValidStructured = <<>> => RanFlexible /\ Pos("enhanced") < PosFlexible
        /\ Ran("llm") =>
              /\ Ran("enhanced") /\ Pos("enhanced") < Pos("llm")
              /\ RanFlexible /\ PosFlexible < Pos("llm")
              /\ ValidStructured = <<>> /\ ValidFlexible = <<>>
        /\ (call.parser = "std" /\ ValidStructured = <<>> /\ ValidFlexible = <<>>)
              => call.ret = <<>>

\* C2 (as stated): whenever no record of the structured strategy survives
\* validation, the flexible strategy is invoked on the same text before the
\* document's result is returned.
C2_FallbackOnValidated ==
    (Ran("enhanced") /\ ValidStructured = <<>>) => RanFlexible

\* C3: when the remote call fails, returns nothing, or its response cannot be
\* parsed, LLMPDFParser.parse_pdf returns exactly what the pattern-based
\* parser extracts from the same document, and raises nothing.
C3_LLMFailureFallsBack ==
    (call.parser = "llm" /\ Ran("llm") /\ LLMFailed) =>
        /\ call.ret = Baseline
        /\ ~call.raised

C3_Witness ==
    /\ call.parser = "llm" /\ Ran("llm") /\ call.resp.kind = "bad"
    /\ call.ret # <<>> /\ call.ret = Baseline

C5_CacheGate ==
    call.parser = "llm" =>
        /\ call.hit <=> (call.doc \in call.before /\ ~call.force)
        /\ call.hit =>
              /\ call.trace = <<>> /\ call.ret = <<>>
              /\ stats.cache_hits = call.hits_before + 1
        /\ (call.doc \in call.done_before /\ ~call.force) => call.hit

\* C6 (as stated): after every extraction that returns at least one record,
\* by whichever strategy, the document is in the in-memory processed set.
C6_ProcessedAfterSuccess ==
    (call.parser = "llm" /\ call.ret # <<>>) => call.doc \in parsed_cache

(***************************************************************************)
(* CSVStore.upsert.  A row is a record of cells; a cell is a string, NA    *)
(* for pandas' NaN/None.  The file holds text: to_csv writes NA as the     *)
(* empty field, and read_csv(dtype=str) reads every empty field as NA.     *)
(***************************************************************************)
NA == "<NA>"

\* DataFrame.to_csv for one row
ToCsvRow(row) == [f \in DOMAIN row |-> IF row[f] = NA THEN "" ELSE row[f]]
ToCsv(df) == [i \in 1..Len(df) |-> ToCsvRow(df[i])]

\* CSVStore.load_csv: pd.read_csv(..., dtype=str)
LoadCsvRow(line) == [f \in DOMAIN line |-> IF line[f] = "" THEN NA ELSE line[f]]
LoadCsv(file) == [i \in 1..Len(file) |-> LoadCsvRow(file[i])]

KeyOf(row, keys) == [k \in keys |-> row[k]]

\* drop_duplicates(subset=keys, keep='last'); NA equals NA there
DropDuplicatesKeepLast(df, keys) ==
    LET keep(i) == \A j \in (i + 1)..Len(df) : KeyOf(df[j], keys) # KeyOf(df[i], keys)
        F[i \in 0..Len(df)] ==
            IF i = 0 THEN <<>>
            ELSE IF keep(i) THEN Append(F[i - 1], df[i]) ELSE F[i - 1]
    IN  F[Len(df)]

\* the order of cell values under sort_values: strings in lexical order, NA last
CellOrder ==
    <<"", "01", "02", "03", "12.34.567", "12345", "67890", "D099", "F001", "XYZ",
      "d099", NA>>
CellRank(v) == CHOOSE i \in 1..Len(CellOrder) : CellOrder[i] = v

\* lexicographic comparison on the key columns, in the order the caller lists them
RECURSIVE KeyLess(_, _, _)
KeyLess(a, b, keycols) ==
    IF keycols = <<>> THEN FALSE
    ELSE LET k == Head(keycols)
         IN  \/ CellRank(a[k]) < CellRank(b[k])
             \/ /\ a[k] = b[k]
                /\ KeyLess(a, b, Tail(keycols))

\* sort_values(by=keys): a stable insertion of each row in turn
RECURSIVE InsertSorted(_, _, _)
InsertSorted(sorted, row, keycols) ==
    IF sorted = <<>> THEN <<row>>
    ELSE IF KeyLess(row, Head(sorted), keycols)
    THEN <<row>> \o sorted
    ELSE <<Head(sorted)>> \o InsertSorted(Tail(sorted), row, keycols)

SortValues(df, keycols) ==
    LET F[i \in 0..Len(df)] ==
            IF i = 0 THEN <<>> ELSE InsertSorted(F[i - 1], df[i], keycols)
    IN  F[Len(df)]

Range(seq) == { seq[i] : i \in 1..Len(seq) }

\* whether upsert merges into what it loaded; the source writes df_new as it
\* is when the loaded frame is empty
MergesInto(df_existing) == df_existing # <<>>

\* CSVStore.upsert(df_new, target_csv, keys): the file content afterwards;
\* the frames are computed one after the other: combined (pd.concat), deduped
\* (drop_duplicates), sorted (sort_values), and the last is written
Upsert(file, df_new, keycols, now) ==
    IF df_new = <<>> THEN file
    ELSE LET stamped == [i \in 1..Len(df_new) |->
                            [df_new[i] EXCEPT !.updated_at = now]]
             df_existing == LoadCsv(file)
         IN  IF ~MergesInto(df_existing)
             THEN ToCsv(stamped)
             ELSE CHOOSE out \in
                      { ToCsv(sorted) :
                          sorted \in { SortValues(deduped, keycols) :
                              deduped \in { DropDuplicatesKeepLast(combined, Range(keycols)) :
                                  combined \in {df_existing \o stamped} } } } : TRUE

(***************************************************************************)
(* The sink on its own: batches of rows are upserted into the file.        *)
(***************************************************************************)
RowDocs == {"12345"}
RowItems == {"01", "02", ""}
RowCodes == {"D099", "F001"}
RowVals == {"a", "b"}

Rows ==
    [numero_documento : RowDocs, item_numero : RowItems,
     numero_residuo : RowCodes, val : RowVals, updated_at : {NA}]

Batches == SeqsUpTo(Rows, MaxBatch)

\* the key columns the two callers pass: _save_items_batch (LLM parser) and
\* _save_items_to_csv (pattern-based parser, expanded schema)
KeysLLM == <<"numero_documento", "item_numero", "numero_residuo">>
KeysStd == <<"numero_documento", "item_numero">>

\* the key of the output contract: (document_id, item_index)
ContractKey(row) == <<row.numero_documento, row.item_numero>>

\* the history of submissions: for each contract key the row submitted last
RECURSIVE Submit(_, _)
Submit(hist, batch) ==
    IF batch = <<>> THEN hist
    ELSE Submit({ r \in hist : ContractKey(r) # ContractKey(Head(batch)) }
                    \cup {Head(batch)},
                Tail(batch))

\* a row without its stamp, as text in the file
Unstamped(row) == [ToCsvRow(row) EXCEPT !.updated_at = ""]
FileRows(file) == { Unstamped(file[i]) : i \in 1..Len(file) }

InitStore ==
    /\ parsed_cache = {}
    /\ stats = ZeroStats
    /\ std_stats = ZeroStdStats
    /\ call = NoCall
    /\ extracted = {}
    /\ ncalls = 0
    /\ csv = <<>>
    /\ latest = {}
    /\ nupserts = 0
    /\ flush = NoFlushYet
    /\ vin = <<>>
    /\ vout = <<>>
    /\ run = NoRun
    /\ sunk = <<>>
    /\ hashseed \in HashOrders
    /\ docling_stats = ZeroDoclingStats
    /\ UtilIdle

\* the timestamp of datetime.now().isoformat(): the number of the call
Now(n) == CASE n = 0 -> "t0" [] n = 1 -> "t1" [] n = 2 -> "t2" [] OTHER -> "t3"

DoUpsert(batch, keycols) ==
    /\ nupserts < MaxUpserts
    /\ csv' = Upsert(csv, batch, keycols, Now(nupserts))
    /\ latest' = Submit(latest, batch)
    /\ nupserts' = nupserts + 1
    /\ flush' = [batch |-> batch, keycols |-> keycols, before |-> csv, again |-> FALSE]
    /\ UNCHANGED <<hashseed, docling_stats, utilVars, parserVars, validateVars, batchVars>>

\* the caller flushes the batch it has just written once more
Reflush ==
    /\ flush.batch # <<>> /\ ~flush.again
    /\ csv' = Upsert(csv, flush.batch, flush.keycols, Now(nupserts))
    /\ latest' = Submit(latest, flush.batch)
    /\ flush' = [flush EXCEPT !.before = csv, !.again = TRUE]
    /\ UNCHANGED <<hashseed, docling_stats, utilVars, nupserts, parserVars, validateVars, batchVars>>

NextStore ==
    \/ \E batch \in Batches : DoUpsert(batch, KeysLLM)
    \/ \E batch \in Batches : DoUpsert(batch, KeysStd)
    \/ Reflush

SpecStore == InitStore /\ [][NextStore]_vars

\* C7 (as stated): after any sequence of submissions, from an empty store on,
\* the store holds exactly one record for each submitted (document_id,
\* item_index), and it carries the values of the most recent submission.
C7_OneRecordPerKey ==
    \A r \in latest :
        LET same == { i \in 1..Len(csv) :
                        ContractKey(csv[i]) = ContractKey(ToCsvRow(r)) }
        IN  /\ Cardinality(same) = 1
            /\ \A i \in same : Unstamped(csv[i]) = Unstamped(r)

\* C8 (as stated): flushing a batch again right after it was written leaves
\* the same set of stored records, the stamp aside, as the first flush did.
C8_ReflushIdempotent ==
    flush.again => FileRows(csv) = FileRows(flush.before)

(***************************************************************************)
(* validate_extraction on its own, a public method over any list of item   *)
(* dicts: items of the new schema (numero_residuo), of the old one         *)
(* (codigo_residuo), and dicts that carry both keys; codes of many shapes. *)
(***************************************************************************)
NumeroSamples ==
    { D099, d099, XYZ, <<"D", "0", "9">>, <<"D", "0", "9", "9", "9">>,
      <<"0", "9", "9", "9">>, <<"D", "0", "9", "X">> }

CodigoSamples ==
    { Dotted, <<"1", "2", "3", "4", "5", "6", "7">>,
      <<"1", "2", ".", "3", "4", ".", "5", "6">>,
      <<"1", "2", "-", "3", "4", "-", "5", "6", "7">>, NoCode }

UnitSamples == {"", "Ton"}

RawItems ==
    { [EnhancedItem("12345", <<"0", "1">>, c, <<"oleo">>) EXCEPT !.unidade = u] :
        c \in NumeroSamples, u \in UnitSamples }
    \cup
    { [CreateItemDict("12345", c, <<"borra">>) EXCEPT !.unidade = u] :
        c \in CodigoSamples, u \in UnitSamples }
    \cup
    { [EnhancedItem("12345", <<"0", "1">>, n, <<"oleo">>)
          EXCEPT !.codigo_residuo = c] :
        n \in {D099, XYZ}, c \in {Dotted, <<"1", "2", "3", "4", "5", "6", "7">>} }

InitValidate ==
    /\ parsed_cache = {}
    /\ stats = ZeroStats
    /\ std_stats = ZeroStdStats
    /\ call = NoCall
    /\ extracted = {}
    /\ ncalls = 0
    /\ csv = <<>>
    /\ latest = {}
    /\ nupserts = 0
    /\ flush = NoFlushYet
    /\ vin \in SeqsUpTo(RawItems, MaxValidate)
    /\ vout = <<>>
    /\ run = NoRun
    /\ sunk = <<>>
    /\ hashseed \in HashOrders
    /\ docling_stats = ZeroDoclingStats
    /\ UtilIdle

Validate ==
    /\ vout = <<>>
    /\ vout' = <<ValidateExtraction(vin)>>
    /\ UNCHANGED <<hashseed, docling_stats, utilVars, vin, parserVars, storeVars, batchVars>>

NextValidate == Validate

SpecValidate == InitValidate /\ [][NextValidate]_vars

\* the two accepted shapes, as the specification writes them
IsResidueShape(s) ==
    /\ Len(s) = 4
    /\ s[1] \in Upper
    /\ s[2] \in Digit /\ s[3] \in Digit /\ s[4] \in Digit
IsLegacyShape(s) ==
    /\ Len(s) = 9
    /\ s[1] \in Digit /\ s[2] \in Digit /\ s[3] = "."
    /\ s[4] \in Digit /\ s[5] \in Digit /\ s[6] = "."
    /\ s[7] \in Digit /\ s[8] \in Digit /\ s[9] \in Digit
HasAcceptedCode(item) ==
    IsResidueShape(item.numero_residuo) \/ IsLegacyShape(item.codigo_residuo)

Codes(items) ==
    [i \in 1..Len(items) |-> <<items[i].numero_residuo, items[i].codigo_residuo>>]

DecidingCodeAccepted(item) ==
    IF item.numero_residuo # <<>>
    THEN IsResidueShape(item.numero_residuo)
    ELSE IsLegacyShape(item.codigo_residuo)

BatchSize == 2

\* list(self.pdf_dir.glob("*.pdf")), by document number
PdfFiles == <<"12345", "67890">>

\* a cell of the data frame: the text of a value, NaN for None or a missing key
CellText(v) ==
    CASE v = D099 -> "D099"
      [] v = d099 -> "d099"
      [] v = XYZ -> "XYZ"
      [] v = F001 -> "F001"
      [] v = Dotted -> "12.34.567"
      [] v = <<"0", "1">> -> "01"
      [] v = <<"0", "2">> -> "02"
      [] OTHER -> NA

\* pd.DataFrame(items) with the columns of the schema
DataFrame(items) ==
    [i \in 1..Len(items) |->
        [numero_documento |-> items[i].numero_documento,
         item_numero |-> CellText(items[i].item_numero),
         numero_residuo |-> CellText(items[i].numero_residuo),
         codigo_residuo |-> CellText(items[i].codigo_residuo),
         updated_at |-> NA]]

\* _save_items_batch: the file afterwards
SaveItemsBatch(file, items, now) ==
    IF items = <<>> THEN file ELSE Upsert(file, DataFrame(items), KeysLLM, now)

\* the items CSV from which _load_parsed_cache has read the set: one row for
\* each document of the set
CsvOf(cache) ==
    LET docs == SelectSeq(PdfFiles, LAMBDA d : d \in cache)
    IN  [i \in 1..Len(docs) |->
            [numero_documento |-> docs[i], item_numero |-> "01",
             numero_residuo |-> "D099", codigo_residuo |-> "", updated_at |-> "t0"]]

InitBatch ==
    /\ parsed_cache \in SUBSET DocIds
    /\ stats = ZeroStats
    /\ std_stats = ZeroStdStats
    /\ call = NoCall
    /\ extracted = {}
    /\ ncalls = 0
    /\ csv = CsvOf(parsed_cache)
    /\ latest = {}
    /\ nupserts = 0
    /\ flush = NoFlushYet
    /\ vin = <<>>
    /\ vout = <<>>
    /\ run \in { [NoRun EXCEPT !.force_reparse = f] : f \in BOOLEAN }
    /\ sunk = <<>>
    /\ hashseed \in HashOrders
    /\ docling_stats = ZeroDoclingStats
    /\ UtilIdle

\* one turn of the loop over pdf_files
ParseNextPdf(pdf, resp) ==
    /\ ~run.done /\ run.next <= Len(PdfFiles)
    /\ \E doc \in {PdfFiles[run.next]} :
       \E r \in {LLMParsePdf(doc, pdf, run.force_reparse, resp, stats, parsed_cache)} :
       \E items \in {IF r.raised THEN <<>> ELSE r.ret} :
       \E all_items \in {run.all_items \o items} :
       \E full \in {items # <<>> /\ Len(all_items) >= BatchSize} :
           /\ parsed_cache' = r.cache
           /\ stats' = IF r.raised THEN Bump(r.stats, "errors", 1) ELSE r.stats
           /\ extracted' = IF items # <<>> THEN extracted \cup {doc} ELSE extracted
           /\ run' = [run EXCEPT !.next = @ + 1,
                                 !.attempted = Append(@, [doc |-> doc, n |-> Len(items)]),
                                 !.all_items = IF full THEN <<>> ELSE all_items,
                                 !.processed_count =
                                     IF items # <<>> THEN @ + 1 ELSE @]
           /\ sunk' = IF full THEN sunk \o all_items ELSE sunk
           /\ csv' = IF full THEN SaveItemsBatch(csv, all_items, Now(nupserts))
                     ELSE csv
           /\ nupserts' = IF full THEN nupserts + 1 ELSE nupserts
    /\ UNCHANGED <<hashseed, docling_stats, utilVars, std_stats, call, ncalls, latest, flush, validateVars>>

\* after the loop: the remaining items are saved and the totals recorded
FinishRun ==
    /\ ~run.done /\ run.next > Len(PdfFiles)
    /\ sunk' = sunk \o run.all_items
    /\ csv' = SaveItemsBatch(csv, run.all_items, Now(nupserts))
    /\ nupserts' = IF run.all_items # <<>> THEN nupserts + 1 ELSE nupserts
    /\ stats' = [k \in DOMAIN stats \cup {"total_pdfs", "processed_pdfs"} |->
                    CASE k = "total_pdfs" -> Len(PdfFiles)
                      [] k = "processed_pdfs" -> run.processed_count
                      [] OTHER -> stats[k]]
    /\ run' = [run EXCEPT !.done = TRUE]
    /\ UNCHANGED <<hashseed, docling_stats, utilVars, parsed_cache, std_stats, call, extracted, ncalls, latest,
                   flush, validateVars>>

NextBatch ==
    \/ \E pdf \in Pdfs, resp \in LLMResponses : ParseNextPdf(pdf, resp)
    \/ FinishRun

SpecBatch == InitBatch /\ [][NextBatch]_vars

\* C9: every record handed to the persistence sink has a residue code of the
\* shape [A-Z]\d{3} or a legacy code of the shape \d{2}\.\d{2}\.\d{3},
\* whichever strategy produced it.
C9_SunkRecordsHaveCode ==
    \A i \in 1..Len(sunk) : HasAcceptedCode(sunk[i])

(***************************************************************************)
(* PDFParserStandalone.parse_pdf on documents with item blocks: a freshly  *)
(* constructed parser parses one document whose text holds item headings,  *)
(* compound characteristic lines, legacy codes and prose.                  *)
(***************************************************************************)
ItemLines ==
    { Anchor(<<"0", "1">>, D099, <<"oleo">>),
      Anchor(<<"0", "2">>, XYZ, <<"lama">>),
      Anchor(<<"0", "2">>, d099, <<"lama">>),
      Anchor(<<"0", "3">>, F001, <<"borra">>),
      FieldsLine("I", "Liquido", "O", "50", "t/ano"),
      FieldsLine("II", "SOLIDO", "I", "7", "kg / ano"),
      Codigo(Dotted, <<"borra">>),
      Codigo(Dotted2, <<"cinza">>),
      Filler }

ItemTexts == SeqsUpTo(ItemLines, MaxBlockLines)

ItemPdfs == {[readable |-> FALSE, text |-> <<>>]}
            \cup {[readable |-> TRUE, text |-> t] : t \in ItemTexts}

NextExtract ==
    \/ Return
    \/ /\ ncalls = 0
       /\ \E pdf \in ItemPdfs : StdParse("12345", pdf)
    \/ /\ ncalls = 0
       /\ \E pdf \in ItemPdfs : DoclingParse("12345", pdf)

SpecExtract == Init /\ [][NextExtract]_vars

\* an item heading whose residue code has neither accepted shape, and the
\* text of that item: its heading and the lines up to the next item heading
IsMalformedItem(line) == line.kind = "anchor" /\ ~IsResidueShape(line.code)
IsWellFormedItem(line) == line.kind = "anchor" /\ IsResidueShape(line.code)
ItemEnd(text, m) ==
    LET later == { j \in (m + 1)..Len(text) : text[j].kind = "anchor" }
    IN  IF later = {} THEN Len(text)
        ELSE (CHOOSE x \in later : \A y \in later : x <= y) - 1
WithoutItem(text, m) ==
    SubSeq(text, 1, m - 1) \o SubSeq(text, ItemEnd(text, m) + 1, Len(text))

\* C11 (as stated): an item whose residue code fails the shape check is
\* dropped alone: the document's other items are returned with the same field
\* values and in the same order as if the malformed item's text were absent.
C11_MalformedDroppedAlone ==
    (call.parser = "std" /\ call.pdf.readable) =>
        \A m \in 1..Len(call.pdf.text) :
            (/\ IsMalformedItem(call.pdf.text[m])
             /\ \E i \in 1..Len(call.pdf.text) : IsWellFormedItem(call.pdf.text[i]))
            => call.ret = StdParsePdf([readable |-> TRUE,
                                       text |-> WithoutItem(call.pdf.text, m)],
                                      call.doc).items

(***************************************************************************)
(* LLMPDFParser.parse_pdf on JSON responses: a freshly constructed parser  *)
(* parses one document, and the remote call answers with a JSON object     *)
(* with or without the keys 'items', 'total_items' and 'processed_at'.     *)
(***************************************************************************)
DeclaredTotals == {<<>>, <<0>>, <<1>>, <<5>>}

TimestampSamples ==
    { <<>>,
      <<DateTok, "T", "12", ":", ":", "00">>,
      <<DateTok, "T", "12", ":", "00">>,
      <<DateTok, "T", "12", ":", "00", ":", "00">>,
      <<DateTok, "T", "12", ":", "00", "Z">>,
      <<DateTok, "T", "9", ":", ":", "00">>,
      <<"ontem">> }

JsonResponses ==
    { [kind |-> "ok", items |-> its, has_items |-> h, total_items |-> t,
       processed_at |-> ts] :
          its \in SeqsUpTo(LLMItems, MaxLLMItems), h \in BOOLEAN,
          t \in DeclaredTotals, ts \in TimestampSamples }

ResponsePdfs ==
    { [readable |-> TRUE, text |-> <<Codigo(Dotted, <<"borra">>)>>],
      [readable |-> TRUE, text |-> <<Other>>] }

NextResponse ==
    \/ Return
    \/ /\ ncalls = 0
       /\ \E pdf \in ResponsePdfs, resp \in { r \in JsonResponses : r.has_items \/ r.items = <<>> } :
              LLMParse("12345", pdf, FALSE, resp)

SpecResponse == Init /\ [][NextResponse]_vars

\* the remote call answered with JSON and parse_pdf went past the cache gate
AnsweredJson == call.parser = "llm" /\ ~call.hit /\ call.resp.kind = "ok"

\* C12 (as stated): a response whose declared total_items differs from the
\* number of entries of its items array is accepted, and the total_items of
\* the result equals the length of the array.
C12_TotalItemsRecomputed ==
    (AnsweredJson /\ call.resp.has_items) =>
        /\ call.result # <<>>
        /\ call.result[1].total_items = Len(call.resp.items)

Repairable == <<DateTok, "T", "12", ":", ":", "00">>
Repaired == <<DateTok, "T", "12", ":", "00", ":", "00">>
Unrepairable == { <<"ontem">>, <<DateTok, "T", "9", ":", ":", "00">> }

C14_TimestampNeverAborts ==
    (AnsweredJson /\ call.resp.has_items) =>
        /\ call.result # <<>>
        /\ call.result[1].items = call.resp.items
        /\ Len(call.ret) = Len(call.resp.items)
        /\ call.resp.processed_at = Repairable =>
               /\ CleanJsonDatetimeFormats(call.resp.processed_at) = Repaired
               /\ call.result[1].processed_at = Repaired
        /\ call.resp.processed_at \in Unrepairable =>
               call.result[1].processed_at = Generated

C14_Witness ==
    /\ AnsweredJson /\ call.resp.processed_at = Repairable
    /\ call.resp.items # <<>> /\ Len(call.ret) = Len(call.resp.items)
    /\ call.result[1].processed_at = Repaired

(***************************************************************************)
(* PDFParserStandalone.parse_all_pdfs: the files of the PDF directory that *)
(* are not in the cache (all of them with force_reparse) are parsed in     *)
(* turn, the outcome of each is counted, and the items are saved at the    *)
(* end.                                                                    *)
(***************************************************************************)
\* mutant: the cache is not consulted
PendingAll(files, cache, force) == files

\* pending = pdf_files, or those whose stem is not in parsed_cache
Pending(files, cache, force) ==
    IF force THEN files ELSE SelectSeq(files, LAMBDA d : d \notin cache)

\* the key columns _save_items_to_csv chooses from the columns of the frame
SaveKeys(items) ==
    IF \A i \in 1..Len(items) : items[i].schema = "old"
    THEN <<"numero_documento", "codigo_residuo">>
    ELSE <<"numero_documento", "item_numero">>

\* _save_items_to_csv when CSVStore.upsert returns: the file afterwards
SaveItemsToCsv(file, items, now) ==
    IF items = <<>> THEN file
    ELSE Upsert(file, DataFrame(items), SaveKeys(items), now)

\* what the file system lets the save do: the upsert returns ("upsert"); it
\* raises and the write of the except branch succeeds ("fallback"); it raises
\* before it writes and that write raises too ("failed")
SaveOutcomes == {"upsert", "fallback", "failed"}

\* _save_items_to_csv, the except branch: df_new.to_csv(CSV_CADRI_ITEMS,
\* index=False) writes the frame of the new items over the file
SaveItemsFallback(items) == ToCsv(DataFrame(items))

\* _save_items_to_csv: the file afterwards
SaveItems(file, items, now, outcome) ==
    CASE outcome = "upsert" -> SaveItemsToCsv(file, items, now)
      [] outcome = "fallback" -> SaveItemsFallback(items)
      [] OTHER -> file

InitStdBatch ==
    /\ parsed_cache \in SUBSET DocIds
    /\ stats = ZeroStats
    /\ std_stats = ZeroStdStats
    /\ call = NoCall
    /\ extracted = {}
    /\ ncalls = 0
    /\ csv = CsvOf(parsed_cache)
    /\ latest = {}
    /\ nupserts = 0
    /\ flush = NoFlushYet
    /\ vin = <<>>
    /\ vout = <<>>
    /\ run \in { [NoRun EXCEPT !.parser = "std", !.force_reparse = f] : f \in BOOLEAN }
    /\ sunk = <<>>
    /\ hashseed \in HashOrders
    /\ docling_stats = ZeroDoclingStats
    /\ UtilIdle

\* one turn of the loop over pending
StdParseNextPdf(pdf) ==
    /\ run.parser = "std" /\ ~run.done
    /\ \E pending \in {Pending(PdfFiles, parsed_cache, run.force_reparse)} :
       /\ run.next <= Len(pending)
       /\ \E doc \in {pending[run.next]} :
          \E r \in {StdParsePdf(pdf, doc)} :
          \E st \in {Bump(std_stats, "errors", r.errors)} :
              /\ std_stats' =
                     Bump(IF r.items # <<>>
                          THEN Bump(st, "items_extracted", Len(r.items))
                          ELSE Bump(st, "no_items", 1),
                          "processed", 1)
              /\ call' = [NoCall EXCEPT !.parser = "std", !.doc = doc, !.pdf = pdf,
                                        !.before = parsed_cache, !.ret = r.items,
                                        !.blocks = IF pdf.readable
                                                   THEN ResiduoBlocks(pdf.text) ELSE <<>>,
                                        !.trace = r.trace]
              /\ run' = [run EXCEPT !.next = @ + 1,
                                    !.attempted = Append(@, [doc |-> doc, n |-> Len(r.items)]),
                                    !.all_items = @ \o r.items]
    /\ UNCHANGED <<hashseed, docling_stats, utilVars, parsed_cache, stats, extracted, ncalls, storeVars,
                   validateVars, sunk>>

\* after the loop: the items are saved and the statistics returned
StdFinishRun ==
    /\ run.parser = "std" /\ ~run.done
    /\ run.next > Len(Pending(PdfFiles, parsed_cache, run.force_reparse))
    /\ sunk' = sunk \o run.all_items
    /\ \E outcome \in (IF run.all_items = <<>> THEN {"none"} ELSE SaveOutcomes) :
          /\ csv' = IF outcome = "none" THEN csv
                    ELSE SaveItems(csv, run.all_items, Now(nupserts), outcome)
          /\ run' = [run EXCEPT !.done = TRUE, !.save = outcome]
    /\ nupserts' = IF run.all_items # <<>> THEN nupserts + 1 ELSE nupserts
    /\ call' = NoCall
    /\ UNCHANGED <<hashseed, docling_stats, utilVars, parsed_cache, stats, std_stats, extracted, ncalls, latest,
                   flush, validateVars>>

NextStdBatch ==
    \/ \E pdf \in Pdfs : StdParseNextPdf(pdf)
    \/ StdFinishRun

SpecStdBatch == InitStdBatch /\ [][NextStdBatch]_vars

\* the step is one turn of the loop, on a document whose file could not be
\* opened / on a document that was read and ended with no items
TurnOfLoop == run'.next = run.next + 1 /\ call'.parser = "std"
TextExtractionFailed == TurnOfLoop /\ ~call'.pdf.readable
EndedWithNoItems == TurnOfLoop /\ call'.pdf.readable /\ call'.ret = <<>>

\* C15 (as stated): the outcome counters are disjoint per document: a
\* document that ends with no items is counted under no_items and not under
\* errors; a document whose text extraction failed is counted under errors
\* only, not under no_items or processed, and no strategy is attempted on it.
C15_CountersDisjoint ==
    [][ /\ EndedWithNoItems =>
               /\ std_stats'.no_items = std_stats.no_items + 1
               /\ std_stats'.errors = std_stats.errors
        /\ TextExtractionFailed =>
               /\ std_stats'.errors = std_stats.errors + 1
               /\ std_stats'.no_items = std_stats.no_items
               /\ std_stats'.processed = std_stats.processed
               /\ call'.trace = <<"open_failed">> ]_vars

(***************************************************************************)
(* A batch run of either parser to its end.  The loop of parse_all_pdfs    *)
(* is a 'for' over a list built before it starts and every turn returns,   *)
(* so the run is weakly fair.                                              *)
(***************************************************************************)
RunPdfs ==
    { [readable |-> FALSE, text |-> <<>>],
      [readable |-> TRUE, text |-> <<Other>>],
      [readable |-> TRUE, text |-> <<Anchor(<<"0", "1">>, D099, <<"oleo">>)>>],
      [readable |-> TRUE, text |-> <<Codigo(Dotted, <<"borra">>)>>] }

RunResponses ==
    { Response(k, <<>>) : k \in {"raise", "none", "bad"} }
    \cup { Response("ok", <<it>>) : it \in LLMItems }

InitRuns ==
    /\ parsed_cache \in SUBSET DocIds
    /\ stats = ZeroStats
    /\ std_stats = ZeroStdStats
    /\ call = NoCall
    /\ extracted = {}
    /\ ncalls = 0
    /\ csv = CsvOf(parsed_cache)
    /\ latest = {}
    /\ nupserts = 0
    /\ flush = NoFlushYet
    /\ vin = <<>>
    /\ vout = <<>>
    /\ run \in { [NoRun EXCEPT !.parser = p, !.force_reparse = f] :
                    p \in {"std", "llm"}, f \in BOOLEAN }
    /\ sunk = <<>>
    /\ hashseed \in HashOrders
    /\ docling_stats = ZeroDoclingStats
    /\ UtilIdle

NextRuns ==
    \/ /\ run.parser = "llm"
       /\ \E pdf \in RunPdfs, resp \in RunResponses : ParseNextPdf(pdf, resp)
    \/ /\ run.parser = "llm"
       /\ FinishRun
    \/ \E pdf \in RunPdfs : StdParseNextPdf(pdf)
    \/ StdFinishRun

SpecRuns == InitRuns /\ [][NextRuns]_vars /\ WF_vars(NextRuns)

RECURSIVE Returned(_)
Returned(attempted) ==
    IF attempted = <<>> THEN 0
    ELSE Head(attempted).n + Returned(Tail(attempted))

\* the documents the run has to attempt: every file for the LLM parser, the
\* files outside the cache (all of them when forced) for the pattern parser
ToAttempt ==
    IF run.parser = "llm" \/ run.force_reparse THEN PdfFiles
    ELSE SelectSeq(PdfFiles, LAMBDA d : d \notin parsed_cache)

RunComplete ==
    /\ run.done
    /\ [i \in 1..Len(run.attempted) |-> run.attempted[i].doc] = ToAttempt
    /\ Len(sunk) = Returned(run.attempted)

\* C16: a batch run over N pending documents attempts each of them once, in
\* order, and then ends with the final flush and the counters, whatever
\* subset of the documents fails: every run reaches its end, and at the end
\* every pending document was attempted exactly once and every record any
\* document returned was handed to the sink.
C16_BatchRunCompletes == <>[]RunComplete

\* a run that is over, in which the first document failed and a later one
\* returned records
C16_Witness ==
    /\ RunComplete
    /\ Len(run.attempted) = 2
    /\ run.attempted[1].n = 0 /\ run.attempted[2].n > 0
    /\ std_stats.errors + stats.errors + stats.llm_errors > 0

(***************************************************************************)
(* The keys of the dictionaries parse_pdf returns.  A record of the        *)
(* enhanced strategy is built by _create_enhanced_item_dict, a record of   *)
(* the structured and of the alternative strategy by _create_item_dict,    *)
(* which is not given the document's metadata.                             *)
(***************************************************************************)
EntityKeys ==
    {"geradora_nome", "geradora_cadastro_cetesb", "geradora_logradouro",
     "geradora_numero", "geradora_complemento", "geradora_bairro",
     "geradora_cep", "geradora_municipio", "geradora_uf", "geradora_atividade",
     "geradora_bacia_hidrografica", "geradora_funcionarios",
     "destino_entidade_nome", "destino_entidade_cadastro_cetesb",
     "destino_entidade_logradouro", "destino_entidade_numero",
     "destino_entidade_complemento", "destino_entidade_bairro",
     "destino_entidade_cep", "destino_entidade_municipio",
     "destino_entidade_uf", "destino_entidade_atividade",
     "destino_entidade_bacia_hidrografica", "destino_entidade_licenca",
     "destino_entidade_data_licenca", "numero_processo", "numero_certificado",
     "versao_documento", "data_documento"}

EnhancedKeys ==
    {"numero_documento", "item_numero", "numero_residuo", "descricao_residuo",
     "classe_residuo", "estado_fisico", "oii", "quantidade", "unidade",
     "composicao_aproximada", "metodo_utilizado", "cor_cheiro_aspecto",
     "acondicionamento_codigos", "acondicionamento_descricoes",
     "destino_codigo", "destino_descricao", "pagina_origem", "raw_fragment",
     "tipo_documento", "data_validade", "updated_at"} \cup EntityKeys

LegacyKeys ==
    {"numero_documento", "tipo_documento", "codigo_residuo",
     "descricao_residuo", "quantidade", "unidade", "classe", "data_validade",
     "observacao", "linha_original", "data_extracao"}

DictKeys(item) == IF item.schema = "new" THEN EnhancedKeys ELSE LegacyKeys

\* C17 (as stated): every record returned for a document has the same fixed
\* set of fields, among them the document number, the item index and the
\* entity/metadata fields of the document, whichever strategy produced it.
C17_UniformFields ==
    call.parser = "std" =>
        \A i \in 1..Len(call.ret) :
            /\ {"numero_documento", "item_numero"} \cup EntityKeys
                   \subseteq DictKeys(call.ret[i])
            /\ DictKeys(call.ret[i]) = EnhancedKeys

\* the canonical short form of the unit spellings of the compound lines
ShortUnit(printed) ==
    CASE printed = "t/ano" -> "t"
      [] printed = "kg / ano" -> "kg"
      [] OTHER -> printed

\* a text of one well-formed item heading followed by its compound line
\* 'Classe : .. Estado Físico: .. O/I: .. Qtde: ..'
OneItemWithCompoundLine(text) ==
    /\ Len(text) = 2
    /\ IsWellFormedItem(text[1])
    /\ text[2].kind = "fields"

\* C18 (as stated): for a block with one well-formed item heading and a
\* compound characteristic line, the single record that leaves
\* validate_extraction has class, physical state, organic/inorganic flag,
\* quantity and unit, the quantity being the printed number ("50") and the
\* unit the canonical short form ("t" for 't/ano').
C18_CompoundLineFields ==
    (call.parser = "std" /\ call.pdf.readable /\ OneItemWithCompoundLine(call.pdf.text)) =>
        /\ Len(call.ret) = 1
        /\ call.ret[1].classe_residuo = call.pdf.text[2].fields.classe_residuo
        /\ call.ret[1].estado_fisico = UpperWord(call.pdf.text[2].fields.estado_fisico)
        /\ call.ret[1].oii = call.pdf.text[2].fields.oii
        /\ call.ret[1].quantidade = call.pdf.text[2].fields.quantidade
        /\ call.ret[1].unidade = ShortUnit(call.pdf.text[2].fields.unidade)

\* what parse_pdf returns for a readable text in a process that iterates
\* sets of codes in the given order
ParseInProcess(text, doc, order) ==
    LET enhanced == ExtractResiduosEnhanced(text, doc)
        section == FindResiduosSection(text)
    IN  ValidateExtraction(
            IF ~NeedsFallback(enhanced) THEN enhanced
            ELSE IF section # <<>> THEN ExtractResiduosStructured(section, doc)
            ELSE AlternativeLoop(text, doc, ListOfSet(FindAllCodigos(text), order)))

\* C19 (as stated): pattern-based extraction is deterministic: a second run
\* over the same text, in whatever process, returns the same records with
\* the same field values in the same order, for the structured strategy and
\* for the flexible fallback.
C19_Deterministic ==
    (call.parser = "std" /\ call.pdf.readable) =>
        \A order \in HashOrders :
            ParseInProcess(call.pdf.text, call.doc, order) = call.ret

\* the blocks as the description of the segmenter gives them, for the item
\* headings at the given lines
ClaimedBlocks(text, anchors) ==
    LET idx == Ascending(anchors)
    IN  [k \in 1..Len(idx) |->
            [start_pos |-> Offset(text, idx[k]),
             end_pos |-> IF k < Len(idx) THEN Offset(text, idx[k + 1])
                         ELSE Min(Offset(text, idx[k]) + 2000, TextLen(text))]]

\* C20 (as stated): the segmenter yields one block per item anchor in
\* document order; a block starts at its anchor's start and ends at the start
\* of the next anchor or, for the last anchor, at min(anchor start + 2000
\* characters, end of text); with no anchors the list is empty.  Both
\* segmenters, that of PDFParserStandalone and that of DoclingPDFParser.
C20_SegmenterBlocks ==
    /\ (call.parser = "std" /\ call.pdf.readable) =>
           call.blocks = ClaimedBlocks(call.pdf.text, AnchorMatches(call.pdf.text))
    /\ (call.parser = "docling" /\ call.pdf.readable) =>
           call.blocks = ClaimedBlocks(call.pdf.text, DoclingMatches(call.pdf.text))

(***************************************************************************)
(* The packaging ("Acondicionamento") fields of an item block.  A block is *)
(* modelled by its packaging occurrences in text order: the code E\d{2}    *)
(* and the words printed after "code - " (no words: the code is printed    *)
(* without a description).                                                 *)
(***************************************************************************)
MaxPack == 3

PackCodes == {"E01", "E02", "E05"}
NoLetterWords == {"200", "50"}
PackDescs == {<<>>, <<"Tambor">>, <<"200", "litros">>, <<"50", "kg">>}
PackBlocks == SeqsUpTo([code : PackCodes, desc : PackDescs], MaxPack)

\* re.findall(r'E\d{2}', block)
FindAllECodes(block) == [i \in 1..Len(block) |-> block[i].code]

\* the loop "if code not in unique_codes: unique_codes.append(code)", and
\* list(dict.fromkeys(e_codes))
RECURSIVE UniqueCodes(_, _)
UniqueCodes(e_codes, unique_codes) ==
    IF e_codes = <<>> THEN unique_codes
    ELSE UniqueCodes(Tail(e_codes),
                     IF \E k \in 1..Len(unique_codes) : unique_codes[k] = Head(e_codes)
                     THEN unique_codes
                     ELSE Append(unique_codes, Head(e_codes)))

\* group 1 of the description patterns: under re.IGNORECASE the class [^A-Z]
\* excludes every letter, so the group holds the words without letters that
\* follow "code - ", up to the first word with a letter
RECURSIVE DescGroup(_)
DescGroup(words) ==
    IF words = <<>> \/ Head(words) \notin NoLetterWords THEN <<>>
    ELSE <<Head(words)>> \o DescGroup(Tail(words))

\* re.search(rf'{code}\s*-\s*([^A-Z]+?)(?=\s+[A-Z]|$)', block, re.IGNORECASE):
\* the first occurrence of the code followed by " - " and at least one
\* character that is not a letter before the next word; <<>> for no match
DescMatch(block, code) ==
    LET hits == { i \in 1..Len(block) :
                    block[i].code = code /\ DescGroup(block[i].desc) # <<>> }
    IN  IF hits = {} THEN <<>>
        ELSE <<DescGroup(block[CHOOSE i \in hits : \A j \in hits : i <= j].desc)>>

\* Docling's pattern ends in (?=\s*[A-Z]|Destino|$): the blank before a word
\* with a letter is enough for the group, which strip() then empties
DoclingDescMatch(block, code) ==
    LET hits == { i \in 1..Len(block) :
                    block[i].code = code /\ block[i].desc # <<>> }
    IN  IF hits = {} THEN <<>>
        ELSE <<DescGroup(block[CHOOSE i \in hits : \A j \in hits : i <= j].desc)>>

NonEmpty(desc) == desc # <<>>

\* ' | '.join(parts): the words of the parts with a "|" between two parts, so
\* that no part and one empty part give the same text
RECURSIVE JoinBar(_)
JoinBar(parts) ==
    IF parts = <<>> THEN <<>>
    ELSE IF Len(parts) = 1 THEN Head(parts)
    ELSE Head(parts) \o <<"|">> \o JoinBar(Tail(parts))

\* _extract_structured_fields, packaging part: the codes (joined by ',') and
\* the descriptions joined by ' | ' after filter(None, descricoes)
ExtractAcondicionamento(block) ==
    LET unique_codes == UniqueCodes(FindAllECodes(block), <<>>)
        descricoes == [k \in 1..Len(unique_codes) |->
                         IF DescMatch(block, unique_codes[k]) # <<>>
                         THEN DescMatch(block, unique_codes[k])[1]
                         ELSE <<>>]
    IN  [acondicionamento_codigos |-> unique_codes,
         acondicionamento_descricoes |-> JoinBar(SelectSeq(descricoes, NonEmpty))]

\* DoclingPDFParser._extract_acondicionamento: a description is appended
\* only for a code whose pattern matches
RECURSIVE DoclingDescriptions(_, _)
DoclingDescriptions(block, unique_codes) ==
    IF unique_codes = <<>> THEN <<>>
    ELSE (IF DoclingDescMatch(block, Head(unique_codes)) = <<>> THEN <<>>
          ELSE <<DoclingDescMatch(block, Head(unique_codes))[1]>>)
            \o DoclingDescriptions(block, Tail(unique_codes))

DoclingExtractAcondicionamento(block) ==
    LET unique_codes == UniqueCodes(FindAllECodes(block), <<>>)
    IN  [acondicionamento_codigos |-> unique_codes,
         acondicionamento_descricoes |-> JoinBar(DoclingDescriptions(block, unique_codes))]

\* the parsers idle, one packaging block to extract from
ParsersIdle ==
    /\ parsed_cache = {}
    /\ stats = ZeroStats
    /\ std_stats = ZeroStdStats
    /\ call = NoCall
    /\ extracted = {}
    /\ ncalls = 0
    /\ csv = <<>>
    /\ latest = {}
    /\ nupserts = 0
    /\ flush = NoFlushYet
    /\ vin = <<>>
    /\ vout = <<>>
    /\ run = NoRun
    /\ sunk = <<>>
    /\ hashseed \in HashOrders
    /\ docling_stats = ZeroDoclingStats

pipelineVars == <<parserVars, storeVars, validateVars, batchVars, hashseed, docling_stats>>

InitPackaging ==
    /\ ParsersIdle
    /\ util \in { [fn |-> "none", arg |-> block, out |-> <<>>] : block \in PackBlocks }
    /\ seeds = NoSeeds
    /\ retry = NoRetry
    /\ workers = NoWorkers

StdPackaging ==
    /\ util.fn = "none"
    /\ util' = [fn |-> "standalone", arg |-> util.arg,
                out |-> <<ExtractAcondicionamento(util.arg)>>]
    /\ UNCHANGED <<pipelineVars, seeds, retry, workers>>

DoclingPackaging ==
    /\ util.fn = "none"
    /\ util' = [fn |-> "docling", arg |-> util.arg,
                out |-> <<DoclingExtractAcondicionamento(util.arg)>>]
    /\ UNCHANGED <<pipelineVars, seeds, retry, workers>>

NextPackaging == StdPackaging \/ DoclingPackaging

SpecPackaging == InitPackaging /\ [][NextPackaging]_vars

\* the description printed for a code, as the parser that ran reads it: the
\* empty text for a code without one
DescriptionOf(fn, block, code) ==
    LET m == IF fn = "docling" THEN DoclingDescMatch(block, code)
             ELSE DescMatch(block, code)
    IN  IF m = <<>> THEN <<>> ELSE m[1]

FirstSeen(block, code) ==
    CHOOSE i \in 1..Len(block) :
        /\ block[i].code = code
        /\ \A j \in 1..(i - 1) : block[j].code # code

\* C21: the packaging codes of a block are output without duplicates in
\* first-seen order, and the packaging descriptions output are aligned to
\* them: split at the separator, the i-th description is the description of
\* the i-th code, also when some code has no description (empty descriptions
\* at the end of the list may be left out).
C21_PackagingAligned ==
    util.fn \in {"standalone", "docling"} =>
        LET codes == util.out[1].acondicionamento_codigos
            descs == util.out[1].acondicionamento_descricoes
        IN  /\ { codes[k] : k \in 1..Len(codes) }
                  = { util.arg[i].code : i \in 1..Len(util.arg) }
            /\ \A k, l \in 1..Len(codes) :
                  k < l => FirstSeen(util.arg, codes[k]) < FirstSeen(util.arg, codes[l])
            /\ \E n \in 0..Len(codes) :
                  /\ descs = JoinBar([k \in 1..n |->
                                        DescriptionOf(util.fn, util.arg, codes[k])])
                  /\ \A k \in (n + 1)..Len(codes) :
                        DescriptionOf(util.fn, util.arg, codes[k]) = <<>>

(***************************************************************************)
(* LLMPDFParser._parse_llm_response, the step from the response text to    *)
(* the JSON text.  A response is a sequence of pieces: "{" and "}", "k"    *)
(* for the text of a member of a JSON object (nested objects are written   *)
(* with their braces) and "p" for a word of prose.                         *)
(***************************************************************************)
MaxResponse == 5

Pieces == {"{", "}", "k", "p"}
ResponseTexts == SeqsUpTo(Pieces, MaxResponse)

Opens(s) == { i \in 1..Len(s) : s[i] = "{" }
Closes(s) == { i \in 1..Len(s) : s[i] = "}" }

\* re.search(r'\{.*\}', response, re.DOTALL): leftmost '{', and '.*' is
\* greedy, so the match runs to the last '}' after it; <<>> for no match
JsonMatch(response) ==
    IF \E i \in Opens(response) : \E j \in Closes(response) : i < j
    THEN LET first == CHOOSE i \in Opens(response) : \A k \in Opens(response) : i <= k
             last == CHOOSE j \in Closes(response) : \A k \in Closes(response) : k <= j
         IN  IF first < last THEN <<SubSeq(response, first, last)>> ELSE <<>>
    ELSE <<>>

\* the nesting depth after the first n pieces
RECURSIVE Depth(_, _)
Depth(s, n) ==
    IF n = 0 THEN 0
    ELSE Depth(s, n - 1) + (IF s[n] = "{" THEN 1 ELSE IF s[n] = "}" THEN -1 ELSE 0)

\* json.loads accepts the text of one object: it opens with '{', that brace
\* is closed by the last piece, and there is no prose in it
IsJsonObject(s) ==
    /\ Len(s) >= 2
    /\ s[1] = "{"
    /\ Depth(s, Len(s)) = 0
    /\ \A n \in 1..(Len(s) - 1) : Depth(s, n) > 0
    /\ \A n \in 1..Len(s) : s[n] # "p"

\* json_match, json_text and json.loads; <<>> stands for the None returned
\* when there is no match or json.loads raises
ParseLLMResponseText(response) ==
    IF JsonMatch(response) = <<>> THEN <<>>
    ELSE IF IsJsonObject(JsonMatch(response)[1]) THEN JsonMatch(response)
    ELSE <<>>

InitJsonText ==
    /\ ParsersIdle
    /\ util \in { [fn |-> "none", arg |-> response, out |-> <<>>] :
                    response \in ResponseTexts }
    /\ seeds = NoSeeds
    /\ retry = NoRetry
    /\ workers = NoWorkers

ParseResponseText ==
    /\ util.fn = "none"
    /\ util' = [fn |-> "_parse_llm_response", arg |-> util.arg,
                out |-> ParseLLMResponseText(util.arg)]
    /\ UNCHANGED <<pipelineVars, seeds, retry, workers>>

NextJsonText == ParseResponseText

SpecJsonText == InitJsonText /\ [][NextJsonText]_vars

\* the first balanced {...} span of a text that has a '{': from the first
\* '{' to the '}' that closes it (to the end of the text if nothing does)
FirstBalancedSpan(s) ==
    LET first == CHOOSE i \in Opens(s) : \A k \in Opens(s) : i <= k
        rest == SubSeq(s, first, Len(s))
        ends == { n \in 1..Len(rest) : Depth(rest, n) = 0 }
    IN  IF ends = {} THEN rest
        ELSE SubSeq(rest, 1, CHOOSE n \in ends : \A m \in ends : n <= m)

\* C22: when the first balanced {...} span of a response, from its first '{'
\* to the matching '}', is a well-formed JSON object, the parser parses that
\* object, whatever prose precedes or follows it, prose with braces included.
C22_FirstBalancedSpanParsed ==
    (/\ util.fn = "_parse_llm_response"
     /\ Opens(util.arg) # {}
     /\ IsJsonObject(FirstBalancedSpan(util.arg)))
        => util.out = <<FirstBalancedSpan(util.arg)>>

(***************************************************************************)
(* Batch runs over documents of which one holds more items than the flush  *)
(* size.                                                                   *)
(***************************************************************************)
FlushPdfs ==
    RunPdfs \cup
    { [readable |-> TRUE,
       text |-> <<Anchor(<<"0", "1">>, D099, <<"oleo">>),
                  Anchor(<<"0", "2">>, F001, <<"lama">>),
                  Anchor(<<"0", "3">>, D099, <<"borra">>)>>] }

NextFlush ==
    \/ /\ run.parser = "llm"
       /\ \E pdf \in FlushPdfs, resp \in RunResponses : ParseNextPdf(pdf, resp)
    \/ /\ run.parser = "llm"
       /\ FinishRun
    \/ \E pdf \in FlushPdfs : StdParseNextPdf(pdf)
    \/ StdFinishRun

SpecFlush == InitRuns /\ [][NextFlush]_vars

\* the records extracted and not yet written, and the number of records the
\* last attempted document returned
PendingRecords == Len(run.all_items)
LastReturned ==
    IF run.attempted = <<>> THEN 0 ELSE run.attempted[Len(run.attempted)].n

\* C23: at every point of a batch run the records extracted but not yet
\* written amount to at most one batch: the flush size plus the items of one
\* document.
C23_PendingAtMostOneBatch ==
    ~run.done => PendingRecords <= BatchSize + LastReturned

(***************************************************************************)
(* SeedManager (seeds.py).  A seed is the sequence of its characters.      *)
(***************************************************************************)
MaxSeedCount == 20

AsciiUppercase ==
    {"A", "B", "C", "D", "E", "F", "G", "H", "I", "J", "K", "L", "M", "N",
     "O", "P", "Q", "R", "S", "T", "U", "V", "W", "X", "Y", "Z"}

STOPWORDS ==
    {
     <<"L", "T", "D", "A">>, <<"L", "T", "D">>, <<"M", "E", "I">>,
     <<"E", "P", "P">>, <<"E", "I", "R", "E", "L", "I">>,
     <<"S", "/", "A">>, <<"S", "A">>, <<"C", "I", "A">>, <<"I", "N", "D">>,
     <<"C", "O", "M">>, <<"E", "M", "P">>, <<"C", "O", "R", "P">>,
     <<"G", "R", "O", "U", "P">>, <<"H", "O", "L", "D">> }

INITIAL_SEEDS ==
    <<
     <<"C", "E", "M">>, <<"A", "C", "E">>, <<"A", "G", "R">>,
     <<"L", "O", "G">>, <<"M", "E", "C">>, <<"T", "E", "C">>,
     <<"T", "R", "A", "N">>, <<"B", "I", "O">>, <<"Q", "U", "I", "M">>,
     <<"E", "N", "E", "R">>, <<"P", "O", "R", "T">>, <<"A", "M", "B">>,
     <<"R", "E", "S">>, <<"R", "E", "C">>, <<"C", "O", "L">>,
     <<"T", "R", "A">>, <<"D", "E", "S">>, <<"P", "R", "O">>,
     <<"S", "E", "R">>, <<"I", "N", "D">>, <<"F", "A", "B">>,
     <<"M", "E", "T", "A">>, <<"P", "L", "A", "S">>,
     <<"P", "A", "P", "E", "L">>, <<"F", "A", "R", "M">>,
     <<"A", "L", "I">>, <<"B", "E", "B">>, <<"T", "E", "X", "T">> >>

\* "stopword in seed_upper": the stopword is a substring of the seed
Contains(seed, word) ==
    \E i \in 1..(Len(seed) - Len(word) + 1) :
        SubSeq(seed, i, i + Len(word) - 1) = word

\* is_valid_seed, on seeds that are in upper case already
IsValidSeed(seed) ==
    /\ Len(seed) >= 3
    /\ \A stopword \in STOPWORDS : ~Contains(seed, stopword)
    /\ \E i \in 1..Len(seed) : seed[i] \in AsciiUppercase

\* extract_trigrams on a normalised alphanumeric text: the windows of three
\* characters that hold a letter, as a set
ExtractTrigrams(text) ==
    { SubSeq(text, i, i + 2) : i \in { j \in 1..(Len(text) - 2) :
        \E k \in j..(j + 2) : text[k] \in AsciiUppercase } }

\* list(set(trigrams)): the elements in any order
ListsOf(S) ==
    { f \in [1..Cardinality(S) -> S] : \A i, j \in 1..Cardinality(S) : f[i] = f[j] => i = j }

CompanyNames ==
    { <<"L", "T", "D", "A">>, <<"1", "2", "3", "X">> }

\* the manager after __init__ with no state file, and after reset_queue
FreshSeeds ==
    [in_use |-> TRUE, used_seeds |-> {}, seed_queue |-> <<>>,
     discovered_trigrams |-> {}, fresh |-> TRUE, count |-> 0, batch |-> <<>>,
     was_fresh |-> FALSE]

\* get_next_seed, the loop over the queue: the seed found (<<>> for none) and
\* the queue left
RECURSIVE PopQueue(_, _)
PopQueue(seed_queue, used_seeds) ==
    IF seed_queue = <<>> THEN [seed |-> <<>>, seed_queue |-> <<>>]
    ELSE IF Head(seed_queue) \notin used_seeds /\ IsValidSeed(Head(seed_queue))
    THEN [seed |-> <<Head(seed_queue)>>, seed_queue |-> Tail(seed_queue)]
    ELSE PopQueue(Tail(seed_queue), used_seeds)

\* get_next_seed: the outcomes [seed, m], one but for the iteration over the
\* set of discovered trigrams, whose order is the set's
GetNextSeed(m) ==
    LET q == PopQueue(m.seed_queue, m.used_seeds)
        unused == { i \in 1..Len(INITIAL_SEEDS) : INITIAL_SEEDS[i] \notin m.used_seeds }
        found == { t \in m.discovered_trigrams : t \notin m.used_seeds /\ IsValidSeed(t) }
        Use(seed) == [seed |-> <<seed>>,
                      m |-> [m EXCEPT !.seed_queue = q.seed_queue,
                                      !.used_seeds = @ \cup {seed}]]
    IN  IF q.seed # <<>> THEN { Use(q.seed[1]) }
        ELSE IF unused # {}
        THEN { Use(INITIAL_SEEDS[CHOOSE i \in unused : \A j \in unused : i <= j]) }
        ELSE IF found # {} THEN { Use(t) : t \in found }
        ELSE { [seed |-> <<>>, m |-> [m EXCEPT !.seed_queue = q.seed_queue]] }

\* get_batch_seeds: the loop "for _ in range(count)", left at the first None
RECURSIVE GetBatchSeeds(_, _, _)
GetBatchSeeds(m, count, batch) ==
    IF count <= 0 THEN { [batch |-> batch, m |-> m] }
    ELSE UNION { IF o.seed = <<>> THEN { [batch |-> batch, m |-> o.m] }
                 ELSE GetBatchSeeds(o.m, count - 1, batch \o o.seed)
                 : o \in GetNextSeed(m) }

\* add_discovered_text on one text
RECURSIVE AddTrigrams(_, _)
AddTrigrams(m, trigrams) ==
    IF trigrams = <<>> THEN m
    ELSE LET t == Head(trigrams)
         IN  AddTrigrams(
                 IF t \notin m.discovered_trigrams /\ IsValidSeed(t)
                 THEN [m EXCEPT !.discovered_trigrams = @ \cup {t},
                                !.seed_queue = IF t \notin m.used_seeds
                                               THEN Append(@, t) ELSE @]
                 ELSE m,
                 Tail(trigrams))

InitSeeds ==
    /\ ParsersIdle
    /\ util = NoUtil
    /\ seeds = FreshSeeds
    /\ retry = NoRetry
    /\ workers = NoWorkers

AddDiscoveredText(text) ==
    /\ \E trigrams \in ListsOf(ExtractTrigrams(text)) :
         seeds' = [AddTrigrams(seeds, trigrams) EXCEPT !.fresh = FALSE]
    /\ UNCHANGED <<pipelineVars, util, retry, workers>>

ResetQueue ==
    /\ seeds' = FreshSeeds
    /\ UNCHANGED <<pipelineVars, util, retry, workers>>

BatchSeeds(count) ==
    /\ \E o \in GetBatchSeeds(seeds, count, <<>>) :
         seeds' = [o.m EXCEPT !.count = count, !.batch = o.batch,
                              !.was_fresh = seeds.fresh, !.fresh = FALSE]
    /\ UNCHANGED <<pipelineVars, util, retry, workers>>

NextSeeds ==
    \/ \E text \in CompanyNames : AddDiscoveredText(text)
    \/ ResetQueue
    \/ \E count \in 0..MaxSeedCount : BatchSeeds(count)

SpecSeeds == InitSeeds /\ [][NextSeeds]_vars

\* C24: for every count n, get_batch_seeds(n) called on a freshly reset
\* SeedManager returns at most n seeds, each of which satisfies is_valid_seed
\* and is in used_seeds afterwards.
C24_BatchSeedsValidAndUsed ==
    (seeds.in_use /\ seeds.was_fresh) =>
        /\ Len(seeds.batch) <= seeds.count
        /\ \A i \in 1..Len(seeds.batch) :
              /\ IsValidSeed(seeds.batch[i])
              /\ seeds.batch[i] \in seeds.used_seeds

(***************************************************************************)
(* normalize_classe (utils_text.py), on a class written as the sequence of *)
(* its characters.                                                         *)
(***************************************************************************)
MaxClasse == 4

ClasseChars == {"I", "V", "A", "B", " ", "2", "i"}
Classes == SeqsUpTo(ClasseChars, MaxClasse)

\* str.upper, on the characters above
UpperChar(c) == IF c = "i" THEN "I" ELSE c
UpperText(s) == [k \in 1..Len(s) |-> UpperChar(s[k])]

\* str.strip
RECURSIVE LStrip(_)
LStrip(s) == IF s # <<>> /\ Head(s) = " " THEN LStrip(Tail(s)) ELSE s
RECURSIVE RStrip(_)
RStrip(s) ==
    IF s # <<>> /\ s[Len(s)] = " " THEN RStrip(SubSeq(s, 1, Len(s) - 1)) ELSE s
Strip(s) == RStrip(LStrip(s))

\* str.replace(old, new): every occurrence, left to right, without overlap
RECURSIVE StrReplace(_, _, _)
StrReplace(s, old, new) ==
    IF Len(s) < Len(old) THEN s
    ELSE IF SubSeq(s, 1, Len(old)) = old
    THEN new \o StrReplace(SubSeq(s, Len(old) + 1, Len(s)), old, new)
    ELSE <<Head(s)>> \o StrReplace(Tail(s), old, new)

\* roman_map, in the order the dictionary lists (and iterates) its items
RomanMap ==
    << [roman |-> <<"I">>, arabic |-> <<"1">>],
       [roman |-> <<"I", "I">>, arabic |-> <<"2">>],
       [roman |-> <<"I", "I", "I">>, arabic |-> <<"3">>],
       [roman |-> <<"I", "V">>, arabic |-> <<"4">>],
       [roman |-> <<"V">>, arabic |-> <<"5">>] >>

\* the loop "for roman, arabic in roman_map.items(): classe = classe.replace(...)"
RECURSIVE ReplaceRomans(_, _)
ReplaceRomans(classe, k) ==
    IF k > Len(RomanMap) THEN classe
    ELSE ReplaceRomans(StrReplace(classe, RomanMap[k].roman, RomanMap[k].arabic), k + 1)

\* re.match(r'(\d+)\s*([AB])?', classe): the digits at the start, and the
\* A or B that follows them after optional blanks
RECURSIVE LeadingDigits(_)
LeadingDigits(s) ==
    IF s # <<>> /\ Head(s) \in Digit THEN <<Head(s)>> \o LeadingDigits(Tail(s))
    ELSE <<>>

NormalizeClasse(classe) ==
    IF classe = <<>> THEN <<>>
    ELSE LET c == ReplaceRomans(Strip(UpperText(classe)), 1)
             num == LeadingDigits(c)
             rest == LStrip(SubSeq(c, Len(num) + 1, Len(c)))
             letter == IF rest # <<>> /\ Head(rest) \in {"A", "B"}
                       THEN <<Head(rest)>> ELSE <<>>
         IN  IF num # <<>> THEN num \o letter ELSE c

InitClasse ==
    /\ ParsersIdle
    /\ util \in { [fn |-> "none", arg |-> classe, out |-> <<>>] : classe \in Classes }
    /\ seeds = NoSeeds
    /\ retry = NoRetry
    /\ workers = NoWorkers

NormalizeOneClasse ==
    /\ util.fn = "none"
    /\ util' = [fn |-> "normalize_classe", arg |-> util.arg,
                out |-> NormalizeClasse(util.arg)]
    /\ UNCHANGED <<pipelineVars, seeds, retry, workers>>

NextClasse == NormalizeOneClasse

SpecClasse == InitClasse /\ [][NextClasse]_vars

\* the Arabic numeral of a Roman numeral from I to V
ArabicOf(roman) ==
    (CHOOSE k \in 1..Len(RomanMap) : RomanMap[k].roman = roman)
Numerals == { RomanMap[k].roman : k \in 1..Len(RomanMap) }

\* C25: normalize_classe converts a waste class written as a Roman numeral
\* with optional A/B suffix, with or without a blank before the suffix, to
\* the Arabic numeral plus the suffix ("I" gives "1", "IIA" gives "2A",
\* "II A" gives "2A"), and an Arabic numeral with a suffix likewise ("2 B"
\* gives "2B").
C25_RomanToArabic ==
    util.fn = "normalize_classe" =>
        \A blank \in {<<>>, <<" ">>}, suffix \in {<<>>, <<"A">>, <<"B">>} :
            /\ \A roman \in Numerals :
                  util.arg = roman \o blank \o suffix
                      => util.out = RomanMap[ArabicOf(roman)].arabic \o suffix
            /\ util.arg = <<"2">> \o blank \o suffix => util.out = <<"2">> \o suffix

(***************************************************************************)
(* Page breaks inside an item block.  Two more kinds of line:              *)
(*   "letterhead"  the line "GOVERNO DO ESTADO DE SÃO PAULO"               *)
(*   "footer"      a line "Pag.N/M"                                        *)
(* regex_parser.parse_residue_data reads the items of a text section by    *)
(* section and line by line.                                               *)
(***************************************************************************)
MaxBody == 3

Letterhead ==
    [kind |-> "letterhead", item |-> <<>>, code |-> NoCode, desc |-> <<>>,
     fields |-> NoFields, chars |-> 31]
Footer ==
    [kind |-> "footer", item |-> <<>>, code |-> NoCode, desc |-> <<>>,
     fields |-> NoFields, chars |-> 8]

PageBreakLines ==
    { Letterhead, Footer, Other,
      FieldsLine("I", "Liquido", "O", "50", "t/ano"),
      FieldsLine("II", "SOLIDO", "I", "7", "kg / ano") }

\* one item heading and the lines of its block
PageBreakTexts ==
    { <<Anchor(<<"0", "1">>, D099, <<"oleo">>)>> \o body :
        body \in SeqsUpTo(PageBreakLines, MaxBody) }

PageBreakPdfs == { [readable |-> TRUE, text |-> t] : t \in PageBreakTexts }

\* the sections of residue_pattern: from one item heading to the next
SectionEnd(text, i) ==
    LET later == { j \in (i + 1)..Len(text) : text[j].kind = "anchor" }
    IN  IF later = {} THEN Len(text)
        ELSE (CHOOSE x \in later : \A y \in later : x <= y) - 1

\* the quantity of a compound line: the number, 't' or 'kg' and the time unit
RegexQuantidade(f) ==
    IF f.unidade \in {"t/ano", "kg / ano"}
    THEN <<f.quantidade, ShortUnit(f.unidade), "ano">>
    ELSE <<>>

\* the loop over the lines of a section, from line k on: st holds
\* page_breaking and residue_dict
RECURSIVE SectionLoop(_, _, _)
SectionLoop(section, k, st) ==
    IF k > Len(section) THEN st.residue_dict
    ELSE LET line == section[k]
         IN  IF line.kind = "letterhead"
             THEN SectionLoop(section, k + 1, [st EXCEPT !.page_breaking = TRUE])
             ELSE IF line.kind = "footer"
             THEN SectionLoop(section, k + 1, [st EXCEPT !.page_breaking = FALSE])
             ELSE IF st.page_breaking
             THEN SectionLoop(section, k + 1, st)
             ELSE IF line.kind = "anchor"
             THEN SectionLoop(section, k + 1,
                      [st EXCEPT !.residue_dict.numero = line.item,
                                 !.residue_dict.residuo = line.code \o <<"-">> \o line.desc])
             ELSE IF line.kind = "fields"
             THEN SectionLoop(section, k + 1,
                      [st EXCEPT !.residue_dict.classe = line.fields.classe_residuo,
                                 !.residue_dict.estado_fisico = line.fields.estado_fisico,
                                 !.residue_dict.o_i = line.fields.oii,
                                 !.residue_dict.quantidade =
                                     IF RegexQuantidade(line.fields) # <<>>
                                     THEN RegexQuantidade(line.fields) ELSE @])
             ELSE SectionLoop(section, k + 1, st)

NoResidueDict ==
    [numero |-> <<>>, residuo |-> <<>>, classe |-> "", estado_fisico |-> "",
     o_i |-> "", quantidade |-> <<>>]

\* parse_residue_data: one dictionary for each section that has a number
RECURSIVE ResidueSections(_, _)
ResidueSections(text, i) ==
    IF i > Len(text) THEN <<>>
    ELSE IF text[i].kind # "anchor" THEN ResidueSections(text, i + 1)
    ELSE LET d == SectionLoop(SubSeq(text, i, SectionEnd(text, i)), 1,
                              [page_breaking |-> FALSE, residue_dict |-> NoResidueDict])
         IN  (IF d.numero # <<>> THEN <<d>> ELSE <<>>)
             \o ResidueSections(text, SectionEnd(text, i) + 1)

ParseResidueData(text) == ResidueSections(text, 1)

RegexParse(text) ==
    /\ call.parser = "none" /\ ncalls = 0
    /\ util.fn = "none"
    /\ util' = [fn |-> "parse_residue_data", arg |-> text,
                out |-> ParseResidueData(text)]
    /\ UNCHANGED <<pipelineVars, seeds, retry, workers>>

NextPageBreak ==
    \/ Return
    \/ /\ ncalls = 0 /\ util.fn = "none"
       /\ \E pdf \in PageBreakPdfs : StdParse("12345", pdf)
    \/ \E text \in PageBreakTexts : RegexParse(text)

SpecPageBreak == Init /\ [][NextPageBreak]_vars

\* a text without its page-break boilerplate: the lines from a letterhead
\* line through the next footer line are left out, the footer line included
RECURSIVE StripPageBreaks(_, _)
StripPageBreaks(text, page_breaking) ==
    IF text = <<>> THEN <<>>
    ELSE IF Head(text).kind = "letterhead" THEN StripPageBreaks(Tail(text), TRUE)
    ELSE IF Head(text).kind = "footer" THEN StripPageBreaks(Tail(text), FALSE)
    ELSE IF page_breaking THEN StripPageBreaks(Tail(text), TRUE)
    ELSE <<Head(text)>> \o StripPageBreaks(Tail(text), FALSE)

\* C26: page-break boilerplate inside an item block is stripped before field
\* extraction: no line from the letterhead through the 'Pag.N/M' footer
\* contributes to an extracted field and the lines after the footer are
\* processed again, so the items extracted from a text are those extracted
\* from the text without its boilerplate.
C26_PageBreaksStripped ==
    /\ util.fn = "parse_residue_data" =>
           util.out = ParseResidueData(StripPageBreaks(util.arg, FALSE))
    /\ (call.parser = "std" /\ call.pdf \in PageBreakPdfs) =>
           call.ret = StdParsePdf([readable |-> TRUE,
                                   text |-> StripPageBreaks(call.pdf.text, FALSE)],
                                  call.doc).items

(***************************************************************************)
(* RetryHelper.retry_async and retry_sync (browser.py).  One step is one   *)
(* turn of the loop "for attempt in range(max_retries + 1)": the call of   *)
(* func and what follows it.  An outcome of func is a value, an exception  *)
(* of the classes given in 'exceptions', or an exception of another class. *)
(***************************************************************************)
MaxRetries == 2

Delays == {1, 3}
Backoffs == {2, 3}
Outcomes ==
    { [kind |-> "value", v |-> "response"],
      [kind |-> "caught", v |-> "timeout"],
      [kind |-> "caught", v |-> "http error"],
      [kind |-> "other", v |-> "cancelled"] }

RECURSIVE Pow(_, _)
Pow(b, k) == IF k = 0 THEN 1 ELSE b * Pow(b, k - 1)

WaitTimeFlat(delay, backoff, attempt) == delay

\* wait_time = delay * (backoff ** attempt)
WaitTime(delay, backoff, attempt) == delay * Pow(backoff, attempt)

\* a call of retry_async ("async") or retry_sync ("sync") that has entered
\* its loop: calls lists the outcomes of func so far, sleeps the waits
NewRetry(how, max_retries, delay, backoff) ==
    [in_use |-> TRUE, how |-> how, max_retries |-> max_retries,
     delay |-> delay, backoff |-> backoff, attempt |-> 0,
     last_exception |-> <<>>, calls |-> <<>>, sleeps |-> <<>>,
     status |-> "running", result |-> <<>>]

\* one turn of the loop on the given outcome of func
RetryTurn(r, outcome) ==
    LET called == [r EXCEPT !.calls = Append(@, outcome)]
    IN  IF outcome.kind = "value"
        THEN [called EXCEPT !.status = "returned", !.result = <<outcome.v>>]
        ELSE IF outcome.kind = "other"
        THEN [called EXCEPT !.status = "raised", !.result = <<outcome.v>>]
        ELSE IF r.attempt < r.max_retries
        THEN [called EXCEPT !.last_exception = <<outcome.v>>,
                            !.sleeps = Append(@, WaitTime(r.delay, r.backoff, r.attempt)),
                            !.attempt = @ + 1]
        ELSE [called EXCEPT !.last_exception = <<outcome.v>>,
                            !.status = "raised", !.result = <<outcome.v>>]

InitRetry ==
    /\ ParsersIdle
    /\ util = NoUtil
    /\ seeds = NoSeeds
    /\ retry \in { NewRetry(how, n, delay, backoff) :
                     how \in {"async", "sync"}, n \in 0..MaxRetries,
                     delay \in Delays, backoff \in Backoffs }
    /\ workers = NoWorkers

RetryAsync(outcome) ==
    /\ retry.how = "async" /\ retry.status = "running"
    /\ retry' = RetryTurn(retry, outcome)
    /\ UNCHANGED <<pipelineVars, util, seeds, workers>>

RetrySync(outcome) ==
    /\ retry.how = "sync" /\ retry.status = "running"
    /\ retry' = RetryTurn(retry, outcome)
    /\ UNCHANGED <<pipelineVars, util, seeds, workers>>

NextRetry ==
    \/ \E outcome \in Outcomes : RetryAsync(outcome)
    \/ \E outcome \in Outcomes : RetrySync(outcome)

SpecRetry == InitRetry /\ [][NextRetry]_vars

\* the calls of func that failed with an exception the helper catches
Failed(k) == retry.calls[k].kind = "caught"

\* C27: retry_async and retry_sync with max_retries = n >= 0 call func at
\* most n + 1 times, return the result of the first call that succeeds
\* without calling func again, wait delay * backoff^k after the k-th failed
\* attempt (k from 0) when a further attempt follows, and after n + 1
\* failures raise the last exception caught.
C27_RetryBounded ==
    retry.in_use =>
        /\ Len(retry.calls) <= retry.max_retries + 1
        /\ \A k \in 1..Len(retry.calls) :
              retry.calls[k].kind = "value" =>
                  /\ k = Len(retry.calls)
                  /\ retry.status = "returned"
                  /\ retry.result = <<retry.calls[k].v>>
        /\ retry.status = "returned" => retry.calls[Len(retry.calls)].kind = "value"
        /\ \A k \in 1..Len(retry.calls) :
              (Failed(k) /\ k <= retry.max_retries) =>
                  /\ Len(retry.sleeps) >= k
                  /\ retry.sleeps[k] = retry.delay * Pow(retry.backoff, k - 1)
        /\ Len(retry.sleeps) <= retry.max_retries
        /\ Len(retry.sleeps) <= Len(retry.calls)
        /\ (Len(retry.calls) = retry.max_retries + 1 /\ Failed(Len(retry.calls))) =>
              /\ retry.status = "raised"
              /\ retry.result = <<retry.calls[Len(retry.calls)].v>>
        /\ retry.status = "running" => Len(retry.calls) <= retry.max_retries

\* a call with two retries whose three attempts failed with different
\* exceptions: two waits, and the last exception is raised
C27_Witness ==
    /\ retry.in_use /\ retry.max_retries = 2 /\ Len(retry.calls) = 3
    /\ retry.calls[1].v = "timeout" /\ retry.calls[3].v = "http error"
    /\ retry.delay = 3 /\ retry.backoff = 2 /\ retry.sleeps = <<3, 6>>
    /\ retry.status = "raised" /\ retry.result = <<"http error">>

\* the records stored before a run of the pattern-based parser, and whether
\* the batch the run saves holds a record with the key of a stored one
StoredBefore == CsvOf(parsed_cache)
KeyInBatch(row, items) ==
    \E k \in 1..Len(items) :
        KeyOf(DataFrame(items)[k], Range(SaveKeys(items)))
            = KeyOf(LoadCsvRow(row), Range(SaveKeys(items)))

\* C28: persisting a batch of items never removes or changes a stored record
\* whose key is not in the batch, also when the upsert step raises an error:
\* the records of previously processed documents are still in the store
\* after the save returns.
C28_SaveKeepsOtherRecords ==
    (run.parser = "std" /\ run.done /\ run.save # "none") =>
        \A i \in 1..Len(StoredBefore) :
            ~KeyInBatch(StoredBefore[i], run.all_items) =>
                \E j \in 1..Len(csv) : csv[j] = StoredBefore[i]

(***************************************************************************)
(* Two workers that call CSVStore.upsert on the same file.  The call takes *)
(* no lock, so its steps interleave: the worker loads the file (load_csv), *)
(* computes the frame to write (concat, drop_duplicates, sort_values) and  *)
(* writes it (to_csv).                                                     *)
(***************************************************************************)
Workers == {1, 2}
WorkerDocs == <<"12345", "67890">>

\* the batches of a worker: one or two records of the worker's own document
WorkerBatches(w) ==
    LET Row(item, code) ==
            [numero_documento |-> WorkerDocs[w], item_numero |-> item,
             numero_residuo |-> code, codigo_residuo |-> NA, updated_at |-> NA]
    IN  { <<Row("01", code)>> : code \in {"D099", "F001"} }
        \cup { <<Row("01", "D099"), Row("02", code)>> : code \in {"D099", "F001"} }

NewWorker(batch) ==
    [pc |-> "load", df_new |-> batch, loaded |-> <<>>, to_write |-> <<>>]

InitWorkers ==
    /\ ParsersIdle
    /\ util = NoUtil
    /\ seeds = NoSeeds
    /\ retry = NoRetry
    /\ workers \in { [in_use |-> TRUE, w |-> ws] :
                       ws \in { f \in [Workers -> UNION { {NewWorker(b) : b \in WorkerBatches(w)} : w \in Workers }] :
                                  \A w \in Workers : f[w].df_new \in WorkerBatches(w) } }

\* df_existing = CSVStore.load_csv(target_csv)
WorkerLoad(w) ==
    /\ workers.in_use /\ workers.w[w].pc = "load"
    /\ workers' = [workers EXCEPT !.w[w].pc = "merge", !.w[w].loaded = csv]
    /\ UNCHANGED <<pipelineVars, util, seeds, retry>>

\* the frame the call will write, from the file it loaded
WorkerMerge(w) ==
    /\ workers.in_use /\ workers.w[w].pc = "merge"
    /\ workers' = [workers EXCEPT
                      !.w[w].pc = "write",
                      !.w[w].to_write = Upsert(workers.w[w].loaded, workers.w[w].df_new,
                                               KeysLLM, Now(w))]
    /\ UNCHANGED <<pipelineVars, util, seeds, retry>>

\* df.to_csv(target_csv, index=False)
WorkerWrite(w) ==
    /\ workers.in_use /\ workers.w[w].pc = "write"
    /\ csv' = workers.w[w].to_write
    /\ workers' = [workers EXCEPT !.w[w].pc = "done"]
    /\ UNCHANGED <<parserVars, latest, nupserts, flush, validateVars, batchVars,
                   hashseed, docling_stats, util, seeds, retry>>

NextWorkers ==
    \E w \in Workers : WorkerLoad(w) \/ WorkerMerge(w) \/ WorkerWrite(w)

SpecWorkers == InitWorkers /\ [][NextWorkers]_vars

\* C29: when two workers flush batches with disjoint keys to the same store
\* concurrently, with the load, merge and write steps of the two upserts
\* interleaved in any order, the store afterwards contains the records of
\* both batches.
C29_BothBatchesStored ==
    (workers.in_use /\ \A w \in Workers : workers.w[w].pc = "done") =>
        \A w \in Workers : \A k \in 1..Len(workers.w[w].df_new) :
            \E j \in 1..Len(csv) :
                Unstamped(csv[j]) = Unstamped(workers.w[w].df_new[k])

\* the items_extracted counter of the parser that ran
ItemsExtracted ==
    IF run.parser = "llm" THEN stats.items_extracted ELSE std_stats.items_extracted

\* C30: at the end of a batch run the items_extracted counter equals the
\* number of item records returned for the run's documents and handed to the
\* sink, whichever strategy produced them, records of the pattern-based
\* fallback of the LLM path included.
C30_ItemsExtractedCountsAll ==
    run.done =>
        /\ ItemsExtracted = Returned(run.attempted)
        /\ ItemsExtracted = Len(sunk)
====
